---- MODULE Spec2Model ----
(***************************************************************************)
(* Model of the script-writing assistant in src/new.py: the text           *)
(* sanitizer (clean_text_for_pdf), the text and PDF export pipeline, the   *)
(* character store (CharacterManager and its UI handlers), the length      *)
(* policy of the script composer (adjust_script_length) and the draft      *)
(* history of the script tab.                                              *)
(*                                                                         *)
(* A text is a sequence of Unicode code points, so that "encodable in      *)
(* Latin-1" is the statement that every element is <= 255.                 *)
(***************************************************************************)
EXTENDS Integers, Sequences, FiniteSets, TLC

VARIABLES
  text,             \* the text handed to the sanitizer / the export handlers
  cleaned,          \* outcome of the last clean_text_for_pdf call
  font,             \* the font asset simhei.ttf on disk
  files,            \* scratch storage: the files written by the exports
  ret,              \* what the last export call returned
  exports,          \* number of export calls made
  characters,       \* CharacterManager.characters
  charfile,         \* contents of characters.json
  character_index,  \* the hidden "current index" UI component
  last_op,          \* the last store operation and its arguments
  script,           \* length policy: the text generate_script returned
  requests,         \* length policy: chat-completion requests issued
  gen,              \* length policy: inputs and record of the last generation
  history,          \* history_state: the drafts generated in this session
  output,           \* the text of the output box
  timestamp,        \* the text of the timestamp box
  clock,            \* the wall clock, in seconds
  event             \* the last handler of the script tab and its arguments

vars ==
  <<text, cleaned, font, files, ret, exports, characters, charfile,
    character_index, last_op, script, requests, gen, history, output, timestamp,
    clock, event>>

sanVars ==
  <<text, cleaned>>

exportVars ==
  <<font, files, ret, exports>>

storeVars ==
  <<characters, charfile, character_index, last_op>>

lenVars ==
  <<script, requests, gen>>

histVars ==
  <<history, output, timestamp, clock, event>>

----------------------------------------------------------------------------
(* Bounds *)

MaxLen ==
  3

MaxExportLen ==
  2

MaxExports ==
  1

MaxChars ==
  3

MaxDrafts ==
  2

MaxContinues ==
  1

MaxClock ==
  1

----------------------------------------------------------------------------
(* Strings: Python str operations on sequences of code points *)

\* Code points for which str.isspace() is true; the regex class \s on str
\* patterns and str.strip() use the same predicate.
WhitespaceChars ==
  (9..13) \cup (28..32) \cup {133, 160, 5760} \cup (8192..8202)
    \cup {8232, 8233, 8239, 8287, 12288}

IsSpace(c) ==
  c \in WhitespaceChars

RECURSIVE lstrip(_)
lstrip(s) ==
  IF s # <<>> /\ IsSpace(Head(s)) THEN lstrip(Tail(s)) ELSE s

RECURSIVE rstrip(_)
rstrip(s) ==
  IF s # <<>> /\ IsSpace(s[Len(s)]) THEN rstrip(SubSeq(s, 1, Len(s) - 1)) ELSE s

\* str.strip()
strip(s) ==
  rstrip(lstrip(s))

\* str.lower() on the letters the model uses (ASCII and Latin-1 capitals)
LowerChar(c) ==
  IF (65 <= c /\ c <= 90) \/ (192 <= c /\ c <= 222 /\ c # 215) THEN c + 32 ELSE c

lower(s) ==
  [i \in 1..Len(s) |-> LowerChar(s[i])]

StartsWith(s, p) ==
  Len(p) <= Len(s) /\ SubSeq(s, 1, Len(p)) = p

\* needle in s
Contains(s, needle) ==
  \E i \in 1..(Len(s) - Len(needle) + 1) : SubSeq(s, i, i + Len(needle) - 1) = needle


\* the concatenation of the elements lo..hi of a sequence of sequences, by
\* halves
RECURSIVE FlattenRange(_, _, _)
FlattenRange(ss, lo, hi) ==
  IF lo > hi THEN <<>>
  ELSE IF lo = hi THEN ss[lo]
  ELSE FlattenRange(ss, lo, (lo + hi) \div 2) \o FlattenRange(ss, (lo + hi) \div 2 + 1, hi)

Flatten(ss) ==
  FlattenRange(ss, 1, Len(ss))

\* str.replace(old, new): leftmost non-overlapping occurrences, old non-empty.
\* Occurrences of a single character cannot overlap and are replaced place by
\* place; a longer old is replaced one occurrence at a time, from the
\* leftmost on.
RECURSIVE Replace(_, _, _)
Replace(s, old, new) ==
  IF ~Contains(s, old) THEN s
  ELSE IF Len(old) = 1
  THEN Flatten([i \in 1..Len(s) |-> IF s[i] = old[1] THEN new ELSE <<s[i]>>])
  ELSE LET k == CHOOSE i \in 1..(Len(s) - Len(old) + 1) :
                  /\ SubSeq(s, i, i + Len(old) - 1) = old
                  /\ \A j \in 1..(i - 1) : SubSeq(s, j, j + Len(old) - 1) # old
       IN  SubSeq(s, 1, k - 1) \o new \o Replace(SubSeq(s, k + Len(old), Len(s)), old, new)

\* "for old, new in table: s = s.replace(old, new)" over the entries lo..hi of
\* the table, in order.  Written as a function so that each intermediate string
\* is a value, and halving the range so that the evaluation depth stays small.
ReplaceRange[table \in Seq(Seq(Seq(Nat))), lo \in Nat, hi \in Nat, s \in Seq(Nat)] ==
  IF lo > hi THEN s
  ELSE IF lo = hi THEN Replace(s, table[lo][1], table[lo][2])
  ELSE LET mid == (lo + hi) \div 2
       IN  ReplaceRange[table, mid + 1, hi, ReplaceRange[table, lo, mid, s]]

ReplaceEach(s, table) ==
  ReplaceRange[table, 1, Len(table), s]

Range(s) ==
  {s[i] : i \in 1..Len(s)}

RECURSIVE SeqsUpTo(_, _)
SeqsUpTo(S, n) ==
  IF n = 0 THEN {<<>>}
  ELSE LET shorter == SeqsUpTo(S, n - 1)
       IN  shorter \cup {Append(s, c) : s \in {t \in shorter : Len(t) = n - 1}, c \in S}

----------------------------------------------------------------------------
(* TextSanitizer: clean_text_for_pdf *)

\* punctuation_map.items(), in insertion order
punctuation_map ==
  <<
    <<<<65306>>, <<58, 32>>>>,
    <<<<65292>>, <<44, 32>>>>,
    <<<<12290>>, <<46, 32>>>>,
    <<<<65311>>, <<63, 32>>>>,
    <<<<65281>>, <<33, 32>>>>,
    <<<<65288>>, <<40>>>>,
    <<<<65289>>, <<41>>>>,
    <<<<12304>>, <<91>>>>,
    <<<<12305>>, <<93>>>>,
    <<<<12302>>, <<91>>>>,
    <<<<12303>>, <<93>>>>,
    <<<<34>>, <<34>>>>,
    <<<<58, 32, 34, 39, 34, 44, 32>>, <<39>>>>,
    <<<<8212>>, <<45>>>>,
    <<<<8211>>, <<45>>>>,
    <<<<8230>>, <<46, 46, 46>>>>,
    <<<<12289>>, <<44, 32>>>>,
    <<<<65307>>, <<59, 32>>>>,
    <<<<65372>>, <<124>>>>,
    <<<<12296>>, <<60>>>>,
    <<<<12297>>, <<62>>>>,
    <<<<12298>>, <<60>>>>,
    <<<<12299>>, <<62>>>>,
    <<<<12300>>, <<91>>>>,
    <<<<12301>>, <<93>>>>
  >>

\* sorted(chinese_words.items(), key=len of the word, reverse=True): a stable
\* sort, so words of equal length keep their insertion order
sorted_words ==
  <<
    <<<<20026, 20160, 20040>>, <<119, 101, 105, 115, 104, 101, 110, 109, 101>>>>,
    <<<<20160, 20040>>, <<115, 104, 101, 110, 109, 101>>>>,
    <<<<24590, 20040>>, <<122, 101, 110, 109, 101>>>>,
    <<<<37027, 20040>>, <<110, 97, 109, 101>>>>,
    <<<<36825, 20040>>, <<122, 104, 101, 109, 101>>>>,
    <<<<19981, 36807>>, <<98, 117, 103, 117, 111>>>>,
    <<<<20294, 26159>>, <<100, 97, 110, 115, 104, 105>>>>,
    <<<<28982, 32780>>, <<114, 97, 110, 233, 114>>>>,
    <<<<22240, 20026>>, <<121, 105, 110, 119, 101, 105>>>>,
    <<<<25152, 20197>>, <<115, 117, 111, 121, 105>>>>,
    <<<<22914, 26524>>, <<114, 117, 103, 117, 111>>>>,
    <<<<35201, 26159>>, <<121, 97, 111, 115, 104, 105>>>>,
    <<<<34429, 28982>>, <<115, 117, 105, 114, 97, 110>>>>,
    <<<<34429, 35828>>, <<115, 117, 105, 115, 104, 117, 111>>>>,
    <<<<23613, 31649>>, <<106, 105, 110, 103, 117, 97, 110>>>>,
    <<<<21487, 33021>>, <<107, 101, 110, 101, 110, 103>>>>,
    <<<<20063, 35768>>, <<121, 101, 120, 117>>>>,
    <<<<22823, 27010>>, <<100, 97, 103, 97, 105>>>>,
    <<<<24212, 35813>>, <<121, 105, 110, 103, 103, 97, 105>>>>,
    <<<<24517, 39035>>, <<98, 105, 120, 117>>>>,
    <<<<24050, 32463>>, <<121, 105, 106, 105, 110, 103>>>>,
    <<<<27491, 22312>>, <<122, 104, 101, 110, 103, 122, 97, 105>>>>,
    <<<<21018, 25165>>, <<103, 97, 110, 103, 99, 97, 105>>>>,
    <<<<29616, 22312>>, <<120, 105, 97, 110, 122, 97, 105>>>>,
    <<<<20197, 21518>>, <<121, 105, 104, 111, 117>>>>,
    <<<<23398, 26657>>, <<120, 117, 101, 120, 105, 97, 111>>>>,
    <<<<32769, 24072>>, <<108, 97, 111, 115, 104, 105>>>>,
    <<<<23398, 29983>>, <<120, 117, 101, 115, 104, 101, 110, 103>>>>,
    <<<<21516, 23398>>, <<116, 111, 110, 103, 120, 117, 101>>>>,
    <<<<26379, 21451>>, <<112, 101, 110, 103, 121, 111, 117>>>>,
    <<<<23478, 20154>>, <<106, 105, 97, 114, 101, 110>>>>,
    <<<<29238, 20146>>, <<102, 117, 113, 105, 110>>>>,
    <<<<27597, 20146>>, <<109, 117, 113, 105, 110>>>>,
    <<<<20799, 23376>>, <<101, 114, 122, 105>>>>,
    <<<<22899, 20799>>, <<110, 252, 101, 114>>>>,
    <<<<21733, 21733>>, <<103, 101, 103, 101>>>>,
    <<<<22992, 22992>>, <<106, 105, 101, 106, 105, 101>>>>,
    <<<<24351, 24351>>, <<100, 105, 100, 105>>>>,
    <<<<22969, 22969>>, <<109, 101, 105, 109, 101, 105>>>>,
    <<<<29239, 29239>>, <<121, 101, 121, 101>>>>,
    <<<<22902, 22902>>, <<110, 97, 105, 110, 97, 105>>>>,
    <<<<30340>>, <<100, 101>>>>,
    <<<<20102>>, <<108, 101>>>>,
    <<<<22312>>, <<122, 97, 105>>>>,
    <<<<26159>>, <<115, 104, 105>>>>,
    <<<<25105>>, <<119, 111>>>>,
    <<<<26377>>, <<121, 111, 117>>>>,
    <<<<21644>>, <<104, 101>>>>,
    <<<<23601>>, <<106, 105, 117>>>>,
    <<<<19981>>, <<98, 117>>>>,
    <<<<20154>>, <<114, 101, 110>>>>,
    <<<<37117>>, <<100, 111, 117>>>>,
    <<<<19968>>, <<121, 105>>>>,
    <<<<20010>>, <<103, 101>>>>,
    <<<<19978>>, <<115, 104, 97, 110, 103>>>>,
    <<<<20063>>, <<121, 101>>>>,
    <<<<24456>>, <<104, 101, 110>>>>,
    <<<<21040>>, <<100, 97, 111>>>>,
    <<<<35828>>, <<115, 104, 117, 111>>>>,
    <<<<35201>>, <<121, 97, 111>>>>,
    <<<<21435>>, <<113, 117>>>>,
    <<<<20320>>, <<110, 105>>>>,
    <<<<20250>>, <<104, 117, 105>>>>,
    <<<<30528>>, <<122, 104, 101>>>>,
    <<<<27809>>, <<109, 101, 105>>>>,
    <<<<30475>>, <<107, 97, 110>>>>,
    <<<<22909>>, <<104, 97, 111>>>>,
    <<<<33258>>, <<122, 105>>>>,
    <<<<24049>>, <<106, 105>>>>,
    <<<<38754>>, <<109, 105, 97, 110>>>>,
    <<<<21069>>, <<113, 105, 97, 110>>>>,
    <<<<26368>>, <<122, 117, 105>>>>,
    <<<<26032>>, <<120, 105, 110>>>>,
    <<<<20182>>, <<116, 97>>>>,
    <<<<22905>>, <<116, 97>>>>,
    <<<<23427>>, <<116, 97>>>>,
    <<<<20204>>, <<109, 101, 110>>>>,
    <<<<36825>>, <<122, 104, 101>>>>,
    <<<<37027>>, <<110, 97>>>>,
    <<<<20160>>, <<115, 104, 101, 110>>>>,
    <<<<20040>>, <<109, 101>>>>,
    <<<<21738>>, <<110, 97>>>>,
    <<<<37324>>, <<108, 105>>>>,
    <<<<24590>>, <<122, 101, 110>>>>,
    <<<<26679>>, <<121, 97, 110, 103>>>>,
    <<<<22810>>, <<100, 117, 111>>>>,
    <<<<23569>>, <<115, 104, 97, 111>>>>,
    <<<<20960>>, <<106, 105>>>>,
    <<<<26469>>, <<108, 97, 105>>>>,
    <<<<36208>>, <<122, 111, 117>>>>,
    <<<<36305>>, <<112, 97, 111>>>>,
    <<<<39134>>, <<102, 101, 105>>>>,
    <<<<28216>>, <<121, 111, 117>>>>,
    <<<<22352>>, <<122, 117, 111>>>>,
    <<<<31449>>, <<122, 104, 97, 110>>>>,
    <<<<36538>>, <<116, 97, 110, 103>>>>,
    <<<<21507>>, <<99, 104, 105>>>>,
    <<<<21917>>, <<104, 101>>>>,
    <<<<30561>>, <<115, 104, 117, 105>>>>,
    <<<<37266>>, <<120, 105, 110, 103>>>>,
    <<<<24819>>, <<120, 105, 97, 110, 103>>>>,
    <<<<30693>>, <<122, 104, 105>>>>,
    <<<<36947>>, <<100, 97, 111>>>>,
    <<<<21548>>, <<116, 105, 110, 103>>>>,
    <<<<20570>>, <<122, 117, 111>>>>,
    <<<<32473>>, <<103, 101, 105>>>>,
    <<<<25343>>, <<110, 97>>>>,
    <<<<25918>>, <<102, 97, 110, 103>>>>,
    <<<<24320>>, <<107, 97, 105>>>>,
    <<<<20851>>, <<103, 117, 97, 110>>>>,
    <<<<20080>>, <<109, 97, 105>>>>,
    <<<<21334>>, <<109, 97, 105>>>>,
    <<<<25214>>, <<122, 104, 97, 111>>>>,
    <<<<31561>>, <<100, 101, 110, 103>>>>,
    <<<<24110>>, <<98, 97, 110, 103>>>>,
    <<<<25171>>, <<100, 97>>>>,
    <<<<20889>>, <<120, 105, 101>>>>,
    <<<<35835>>, <<100, 117>>>>,
    <<<<23398>>, <<120, 117, 101>>>>,
    <<<<25945>>, <<106, 105, 97, 111>>>>,
    <<<<22823>>, <<100, 97>>>>,
    <<<<23567>>, <<120, 105, 97, 111>>>>,
    <<<<39640>>, <<103, 97, 111>>>>,
    <<<<20302>>, <<100, 105>>>>,
    <<<<38271>>, <<99, 104, 97, 110, 103>>>>,
    <<<<30701>>, <<100, 117, 97, 110>>>>,
    <<<<23485>>, <<107, 117, 97, 110>>>>,
    <<<<31364>>, <<122, 104, 97, 105>>>>,
    <<<<24555>>, <<107, 117, 97, 105>>>>,
    <<<<24930>>, <<109, 97, 110>>>>,
    <<<<26089>>, <<122, 97, 111>>>>,
    <<<<26202>>, <<119, 97, 110>>>>,
    <<<<26087>>, <<106, 105, 117>>>>,
    <<<<24180>>, <<110, 105, 97, 110>>>>,
    <<<<36731>>, <<113, 105, 110, 103>>>>,
    <<<<32654>>, <<109, 101, 105>>>>,
    <<<<19985>>, <<99, 104, 111, 117>>>>,
    <<<<32982>>, <<112, 97, 110, 103>>>>,
    <<<<30246>>, <<115, 104, 111, 117>>>>,
    <<<<24378>>, <<113, 105, 97, 110, 103>>>>,
    <<<<24369>>, <<114, 117, 111>>>>,
    <<<<32874>>, <<99, 111, 110, 103>>>>,
    <<<<26126>>, <<109, 105, 110, 103>>>>,
    <<<<19996>>, <<100, 111, 110, 103>>>>,
    <<<<21335>>, <<110, 97, 110>>>>,
    <<<<35199>>, <<120, 105>>>>,
    <<<<21271>>, <<98, 101, 105>>>>,
    <<<<20013>>, <<122, 104, 111, 110, 103>>>>,
    <<<<20869>>, <<110, 101, 105>>>>,
    <<<<22806>>, <<119, 97, 105>>>>,
    <<<<24038>>, <<122, 117, 111>>>>,
    <<<<21491>>, <<121, 111, 117>>>>,
    <<<<21518>>, <<104, 111, 117>>>>,
    <<<<26049>>, <<112, 97, 110, 103>>>>,
    <<<<36793>>, <<98, 105, 97, 110>>>>,
    <<<<38388>>, <<106, 105, 97, 110>>>>,
    <<<<22788>>, <<99, 104, 117>>>>,
    <<<<26376>>, <<121, 117, 101>>>>,
    <<<<26085>>, <<114, 105>>>>,
    <<<<22825>>, <<116, 105, 97, 110>>>>,
    <<<<26102>>, <<115, 104, 105>>>>,
    <<<<20998>>, <<102, 101, 110>>>>,
    <<<<31186>>, <<109, 105, 97, 111>>>>,
    <<<<20170>>, <<106, 105, 110>>>>,
    <<<<26152>>, <<122, 117, 111>>>>,
    <<<<29616>>, <<120, 105, 97, 110>>>>,
    <<<<36807>>, <<103, 117, 111>>>>,
    <<<<23558>>, <<106, 105, 97, 110, 103>>>>,
    <<<<26410>>, <<119, 101, 105>>>>,
    <<<<26149>>, <<99, 104, 117, 110>>>>,
    <<<<22799>>, <<120, 105, 97>>>>,
    <<<<31179>>, <<113, 105, 117>>>>,
    <<<<20908>>, <<100, 111, 110, 103>>>>,
    <<<<21320>>, <<119, 117>>>>,
    <<<<22812>>, <<121, 101>>>>,
    <<<<23478>>, <<106, 105, 97>>>>,
    <<<<26657>>, <<120, 105, 97, 111>>>>,
    <<<<22253>>, <<121, 117, 97, 110>>>>,
    <<<<20844>>, <<103, 111, 110, 103>>>>,
    <<<<21496>>, <<115, 105>>>>,
    <<<<24215>>, <<100, 105, 97, 110>>>>,
    <<<<22330>>, <<99, 104, 97, 110, 103>>>>,
    <<<<36335>>, <<108, 117>>>>,
    <<<<34903>>, <<106, 105, 101>>>>,
    <<<<26725>>, <<113, 105, 97, 111>>>>,
    <<<<23665>>, <<115, 104, 97, 110>>>>,
    <<<<27700>>, <<115, 104, 117, 105>>>>,
    <<<<27827>>, <<104, 101>>>>,
    <<<<28023>>, <<104, 97, 105>>>>,
    <<<<22478>>, <<99, 104, 101, 110, 103>>>>,
    <<<<24066>>, <<115, 104, 105>>>>,
    <<<<38215>>, <<122, 104, 101, 110>>>>,
    <<<<26449>>, <<99, 117, 110>>>>,
    <<<<22269>>, <<103, 117, 111>>>>,
    <<<<30465>>, <<115, 104, 101, 110, 103>>>>,
    <<<<21439>>, <<120, 105, 97, 110>>>>,
    <<<<21095>>, <<106, 117>>>>,
    <<<<26412>>, <<98, 101, 110>>>>,
    <<<<35282>>, <<106, 117, 101>>>>,
    <<<<33394>>, <<115, 101>>>>,
    <<<<28436>>, <<121, 97, 110>>>>,
    <<<<21592>>, <<121, 117, 97, 110>>>>,
    <<<<23548>>, <<100, 97, 111>>>>,
    <<<<32534>>, <<98, 105, 97, 110>>>>,
    <<<<21046>>, <<122, 104, 105>>>>,
    <<<<29255>>, <<112, 105, 97, 110>>>>,
    <<<<30005>>, <<100, 105, 97, 110>>>>,
    <<<<24433>>, <<121, 105, 110, 103>>>>,
    <<<<35270>>, <<115, 104, 105>>>>,
    <<<<39057>>, <<112, 105, 110>>>>,
    <<<<33310>>, <<119, 117>>>>,
    <<<<21488>>, <<116, 97, 105>>>>,
    <<<<35805>>, <<104, 117, 97>>>>,
    <<<<38899>>, <<121, 105, 110>>>>,
    <<<<20048>>, <<108, 101>>>>,
    <<<<27468>>, <<103, 101>>>>,
    <<<<29233>>, <<97, 105>>>>,
    <<<<24680>>, <<104, 101, 110>>>>,
    <<<<21916>>, <<120, 105>>>>,
    <<<<27426>>, <<104, 117, 97, 110>>>>,
    <<<<24594>>, <<110, 117>>>>,
    <<<<21696>>, <<97, 105>>>>,
    <<<<20852>>, <<120, 105, 110, 103>>>>,
    <<<<20260>>, <<115, 104, 97, 110, 103>>>>,
    <<<<24515>>, <<120, 105, 110>>>>,
    <<<<23475>>, <<104, 97, 105>>>>,
    <<<<24597>>, <<112, 97>>>>,
    <<<<25285>>, <<100, 97, 110>>>>,
    <<<<32039>>, <<106, 105, 110>>>>,
    <<<<24352>>, <<122, 104, 97, 110, 103>>>>,
    <<<<26494>>, <<115, 111, 110, 103>>>>,
    <<<<24179>>, <<112, 105, 110, 103>>>>,
    <<<<38745>>, <<106, 105, 110, 103>>>>,
    <<<<28608>>, <<106, 105>>>>,
    <<<<21160>>, <<100, 111, 110, 103>>>>
  >>

\* "[CN]"
CN ==
  <<91, 67, 78, 93>>

\* "[?]"
QMark ==
  <<91, 63, 93>>

\* '一' <= char <= '鿿'
IsCJK(c) ==
  19968 <= c /\ c <= 40959

\* step 4, one character of the loop
MapCharKeepOther(c) ==
  IF c <= 255 THEN <<c>>
  ELSE IF IsSpace(c) THEN <<c>>
  ELSE IF IsCJK(c) THEN CN
  ELSE <<c>>

MapChar(c) ==
  IF c <= 255 THEN <<c>>
  ELSE IF IsSpace(c) THEN <<c>>
  ELSE IF IsCJK(c) THEN CN
  ELSE <<63>>

MapRemaining(s) ==
  Flatten([i \in 1..Len(s) |-> MapChar(s[i])])

\* s without its leading ']' characters
RECURSIVE SkipBrackets(_)
SkipBrackets(s) ==
  IF s # <<>> /\ Head(s) = 93 THEN SkipBrackets(Tail(s)) ELSE s

\* re.sub(r'\[CN\]\[CN\]+', '[CN]', s): the quantifier binds the final ']' only,
\* so one match is "[CN][CN" followed by one or more ']'
RECURSIVE CollapseMarkers(_)
CollapseMarkers(s) ==
  IF ~Contains(s, CN \o CN) THEN s
  ELSE LET k == CHOOSE i \in 1..(Len(s) - 2 * Len(CN) + 1) :
                  /\ SubSeq(s, i, i + 2 * Len(CN) - 1) = CN \o CN
                  /\ \A j \in 1..(i - 1) : SubSeq(s, j, j + 2 * Len(CN) - 1) # CN \o CN
       IN  SubSeq(s, 1, k - 1) \o CN
             \o CollapseMarkers(SkipBrackets(SubSeq(s, k + 2 * Len(CN), Len(s))))

\* re.sub(r'\s+', ' ', s): of every run of whitespace the first character is
\* kept, as a space
CollapseSpaces(s) ==
  LET kept == SelectSeq([i \in 1..Len(s) |-> i],
                        LAMBDA i : ~IsSpace(s[i]) \/ i = 1 \/ ~IsSpace(s[i - 1]))
  IN  [k \in 1..Len(kept) |-> IF IsSpace(s[kept[k]]) THEN 32 ELSE s[kept[k]]]

\* a try block whose step 5 drops the whitespace runs
clean_text_main_spaces_dropped(t) ==
  strip(SelectSeq(CollapseMarkers(MapRemaining(
    ReplaceEach(ReplaceEach(t, punctuation_map), sorted_words))), LAMBDA c : ~IsSpace(c)))

\* the try block of clean_text_for_pdf
clean_text_main(t) ==
  strip(CollapseSpaces(CollapseMarkers(MapRemaining(
    ReplaceEach(ReplaceEach(t, punctuation_map), sorted_words)))))

\* the except block: every non-ASCII character becomes "[?]"
clean_text_fallback(t) ==
  Flatten([i \in 1..Len(t) |-> IF t[i] < 128 THEN <<t[i]>> ELSE QMark])

\* clean_text_for_pdf(text); raised says whether the try block raised
clean_text_for_pdf(t, raised) ==
  IF t = <<>> THEN <<>>
  ELSE IF raised THEN clean_text_fallback(t)
  ELSE clean_text_main(t)

----------------------------------------------------------------------------
(* Values of the variables a specification does not use *)

NotCleaned ==
  [done |-> FALSE, raised |-> FALSE, value |-> <<>>,
   again |-> FALSE, second |-> <<>>]

NoFont ==
  [exists |-> FALSE, size |-> 0, lfs |-> FALSE, loadable |-> FALSE]

UnusedPdf ==
  [kind |-> "unused", size |-> 0]

NoRet ==
  [op |-> "none", via |-> "none", artifact |-> 0, status |-> "none", steps |-> <<>>,
   pdf |-> UnusedPdf, txt |-> "unused"]

NoFile ==
  [state |-> "absent", data |-> <<>>]

NoOp ==
  [op |-> "none"]

NoExpansion ==
  [failed |-> FALSE, text |-> <<>>]

NoGen ==
  [done |-> FALSE, api_key |-> FALSE, word_limit |-> 0, first |-> <<>>, passes |-> <<>>,
   expansion |-> NoExpansion]

IdleSan ==
  text = <<>> /\ cleaned = NotCleaned

IdleExport ==
  font = NoFont /\ files = <<>> /\ ret = NoRet /\ exports = 0

IdleStore ==
  characters = <<>> /\ charfile = NoFile /\ character_index = -1 /\ last_op = NoOp

IdleLen ==
  script = <<>> /\ requests = <<>> /\ gen = NoGen

\* the value of history_dropdown while nothing is selected
NoChoice ==
  [time |-> -1, words |-> 0]

NoEvent ==
  [op |-> "none", label |-> NoChoice, continues |-> 0]

IdleHist ==
  history = <<>> /\ output = <<>> /\ timestamp = 0 /\ clock = 0 /\ event = NoEvent

----------------------------------------------------------------------------
(* DocumentExporter: create_enhanced_text_export, export_with_smart_format, *)
(* export_pdf_with_status, safe_export_handler                              *)

\* "if file_size > 1000000"
MinFontSize ==
  1000000

\* "os.path.getsize(temp_file.name) > 100"
MinPdfSize ==
  100

\* len(re.findall(r'[一-龥]', text))
count_words(t) ==
  IF t = <<>> THEN 0
  ELSE Cardinality({i \in 1..Len(t) : 19968 <= t[i] /\ t[i] <= 40869})

\* str(n) for n >= 0
RECURSIVE Digits(_)
Digits(n) ==
  IF n < 10 THEN <<48 + n>> ELSE Digits(n \div 10) \o <<48 + (n % 10)>>

\* The header written before the text: a rule of '=' signs, the title, the
\* export time, the word count and the encoding note, ending in a blank line.
\* The decorative wording is shortened to "\n=\n<count>\n=\n\n".
Header(t) ==
  <<10, 61, 10>> \o Digits(count_words(t)) \o <<10, 61, 10, 10>>

\* The footer written after the text, shortened to "\n\n=\n".
Footer ==
  <<10, 10, 61, 10>>

\* os.linesep where the application runs (POSIX)
linesep ==
  <<10>>

\* A file opened with mode 'w' and newline=None writes os.linesep for '\n'.
WriteTranslate(s) ==
  Replace(s, <<10>>, linesep)

\* The utf-8 codec refuses lone surrogates (U+D800..U+DFFF).
Utf8Encodable(s) ==
  \A i \in 1..Len(s) : ~(55296 <= s[i] /\ s[i] <= 57343)

Utf8Width(c) ==
  IF c < 128 THEN 1 ELSE IF c < 2048 THEN 2 ELSE IF c < 65536 THEN 3 ELSE 4

\* os.path.getsize of a utf-8 text file
RECURSIVE Utf8SizeRange(_, _, _)
Utf8SizeRange(s, lo, hi) ==
  IF lo > hi THEN 0
  ELSE IF lo = hi THEN Utf8Width(s[lo])
  ELSE Utf8SizeRange(s, lo, (lo + hi) \div 2) + Utf8SizeRange(s, (lo + hi) \div 2 + 1, hi)

Utf8Size(s) ==
  Utf8SizeRange(s, 1, Len(s))

TxtFile(content) ==
  [kind |-> "txt", content |-> content, size |-> Utf8Size(content)]

\* what the three temp_file.write calls put in the file
TextFileContentTrimmed(t) ==
  WriteTranslate(Header(t)) \o WriteTranslate(strip(t)) \o WriteTranslate(Footer)

TextFileContent(t) ==
  WriteTranslate(Header(t)) \o WriteTranslate(t) \o WriteTranslate(Footer)

\* Outcomes of the file system for the text file:
\*   "ok"          the file is created and every write succeeds
\*   "open_fails"  NamedTemporaryFile raises, no file is created
\*   "write_fails" a write raises after the header went out
TxtEnvs ==
  {"ok", "open_fails", "write_fails"}

\* create_enhanced_text_export(text): the path returned (0 for None) and the
\* scratch storage afterwards.  Every exception is caught and answered by None.
create_enhanced_text_export(t, fs, env) ==
  IF env = "open_fails" THEN [path |-> 0, files |-> fs]
  ELSE IF env = "write_fails" \/ ~Utf8Encodable(t)
       THEN [path |-> 0, files |-> Append(fs, TxtFile(WriteTranslate(Header(t))))]
       ELSE [path |-> Len(fs) + 1, files |-> Append(fs, TxtFile(TextFileContent(t)))]

\* "not text or not text.strip()"
NoContentEmptyOnly(t) ==
  t = <<>>

NoContent(t) ==
  t = <<>> \/ strip(t) = <<>>

\* Status messages, by the branch that produces them
\*   "no_content"                 没有内容可导出
\*   "text_ok"                    文本格式导出成功
\*   "text_failed"                文本导出失败，请检查系统权限
\*   "pdf_full"                   PDF导出成功 ... 中文支持: 完整支持
\*   "pdf_converted"              PDF导出完成(转换模式)
\*   "pdf_failed_text_generated"  PDF生成失败，已自动生成文本格式
\*   "pdf_error_text_generated"   PDF功能异常，已自动生成文本格式
\*   "pdf_and_text_failed"        PDF和文本导出都失败了
\*   "export_failed"              导出失败: ...
\*   "total_export_failed"        完全导出失败: ...
Downgraded ==
  {"pdf_failed_text_generated", "pdf_error_text_generated"}

HardError ==
  {"pdf_and_text_failed", "export_failed", "total_export_failed"}

Result(op, artifact, status, steps, pdfenv, txtenv, fs) ==
  [ret |-> [op |-> op, via |-> "none", artifact |-> artifact, status |-> status,
            steps |-> steps, pdf |-> pdfenv, txt |-> txtenv],
   files |-> fs]

\* export_with_smart_format(text)
export_with_smart_format(t, fs, txtenv) ==
  IF NoContent(t) THEN Result("text", 0, "no_content", <<>>, UnusedPdf, "unused", fs)
  ELSE LET r == create_enhanced_text_export(t, fs, txtenv)
       IN  IF r.path # 0
           THEN Result("text", r.path, "text_ok", <<"create_enhanced_text_export">>,
                       UnusedPdf, txtenv, r.files)
           ELSE Result("text", 0, "text_failed", <<"create_enhanced_text_export">>,
                       UnusedPdf, txtenv, r.files)

\* The font check of export_pdf_with_status: the asset exists, is larger than
\* 1 MB, does not start with the Git LFS pointer signature, and add_font and
\* set_font accept it (an exception there is caught and leaves font_loaded False).
font_loaded_min_inclusive(fnt) ==
  fnt.exists /\ fnt.size >= MinFontSize /\ ~fnt.lfs /\ fnt.loadable

font_loaded(fnt) ==
  fnt.exists /\ fnt.size > MinFontSize /\ ~fnt.lfs /\ fnt.loadable

\* str.split('\n')
RECURSIVE SplitLines(_)
SplitLines(s) ==
  IF \A i \in 1..Len(s) : s[i] # 10 THEN <<s>>
  ELSE LET k == CHOOSE i \in 1..Len(s) : s[i] = 10 /\ \A j \in 1..(i - 1) : s[j] # 10
       IN  <<SubSeq(s, 1, k - 1)>> \o SplitLines(SubSeq(s, k + 1, Len(s)))

\* the width above which a line is wrapped
max_length ==
  85

\* str.split(' ')
RECURSIVE SplitWords(_)
SplitWords(s) ==
  IF \A i \in 1..Len(s) : s[i] # 32 THEN <<s>>
  ELSE LET k == CHOOSE i \in 1..Len(s) : s[i] = 32 /\ \A j \in 1..(i - 1) : s[j] # 32
       IN  <<SubSeq(s, 1, k - 1)>> \o SplitWords(SubSeq(s, k + 1, Len(s)))

\* what reaches pdf.cell: the string if it encodes as Latin-1, else the string
\* without its characters above 255
Latin1Cell(s) ==
  IF \A i \in 1..Len(s) : s[i] <= 255 THEN s ELSE SelectSeq(s, LAMBDA c : c < 256)

\* the loop over the words of a long line, from word i on: the cells emitted
RECURSIVE WrapWords(_, _, _)
WrapWords(words, i, current_line) ==
  IF i > Len(words)
  THEN IF strip(current_line) # <<>> THEN <<strip(Latin1Cell(current_line))>> ELSE <<>>
  ELSE IF Len(current_line \o words[i] \o <<32>>) <= max_length
  THEN WrapWords(words, i + 1, current_line \o words[i] \o <<32>>)
  ELSE (IF strip(current_line) # <<>> THEN <<strip(Latin1Cell(current_line))>> ELSE <<>>)
         \o WrapWords(words, i + 1, words[i] \o <<32>>)

\* one pass of the loop over the lines: a blank line is a gap of 3 (pdf.ln),
\* any other line one cell, or the cells of its wrapping when it is longer
\* than max_length; pdf.cell does not raise on Latin-1 text
RenderLine(line) ==
  IF strip(line) = <<>> THEN [kind |-> "gap", cells |-> <<>>]
  ELSE IF Len(line) > max_length
  THEN [kind |-> "cells", cells |-> WrapWords(SplitWords(line), 1, <<>>)]
  ELSE [kind |-> "cells", cells |-> <<Latin1Cell(line)>>]

\* "if current_y > 250": the height above which the next line starts a page
page_threshold ==
  250

\* the height of a body cell, "pdf.cell(0, 6, ...)" with "current_y += 6"
cell_height ==
  6

\* the height of the gap of a blank line, "pdf.ln(3)" with "current_y += 3"
gap_height ==
  3

\* pdf.get_y() at the top of a page: the top margin FPDF starts with
top_margin ==
  10

\* "current_y = pdf.get_y()" before the loop: below the title cell (height 10)
\* and pdf.ln(5) and, without the font, the two notice cells and pdf.ln(3)
BodyStart(fl) ==
  top_margin + 10 + 5 + (IF fl THEN 0 ELSE cell_height + cell_height + gap_height)

\* what the pass for line i emits when it starts with current_y = y: each gap
\* or cell with the value current_y has when it is handed to the PDF
EmitGroup(g, i, y, fresh) ==
  IF g.kind = "gap"
  THEN <<[line |-> i, kind |-> "gap", at |-> y, new_page |-> fresh, txt |-> <<>>]>>
  ELSE [k \in 1..Len(g.cells) |->
          [line |-> i, kind |-> "cell", at |-> y + cell_height * (k - 1),
           new_page |-> fresh /\ k = 1, txt |-> g.cells[k]]]

\* what current_y gains in the pass for one line
Advance(g) ==
  IF g.kind = "gap" THEN gap_height ELSE cell_height * Len(g.cells)

\* "for i, line in enumerate(lines)" from line i on with current_y = y: the
\* page check at the head of each pass, then the line's gap or cells
RECURSIVE Paginate(_, _, _)
Paginate(groups, i, y) ==
  IF i > Len(groups) THEN <<>>
  ELSE LET fresh == y > page_threshold
           start == IF fresh THEN top_margin ELSE y
       IN  EmitGroup(groups[i], i, start, fresh)
             \o Paginate(groups, i + 1, start + Advance(groups[i]))

\* The document handed to pdf.output: the font in use, whether the notice about
\* converted characters was added, the lines taken from safe_text, what the
\* loop emitted for each of them, and the emitted gaps and cells in order with
\* the tracked cursor.
PdfDoc(safe, fl) ==
  LET lines == SplitLines(safe)
      groups == [i \in 1..Len(lines) |-> RenderLine(lines[i])]
  IN  [font |-> IF fl THEN "SimHei" ELSE "Arial", notice |-> ~fl, lines |-> lines,
       groups |-> groups, body |-> Paginate(groups, 1, BodyStart(fl))]

\* Outcomes of building and writing the PDF:
\*   "build_raises"   an exception before the file is written (outer except)
\*   "output_raises"  pdf.output raises (inner except)
\*   "missing"        pdf.output returns and the file does not exist
\*   "written"        pdf.output returns and the file has the given size
PdfSizes ==
  {MinPdfSize, MinPdfSize + 1}

PdfEnvs ==
  {[kind |-> k, size |-> 0] : k \in {"build_raises", "output_raises", "missing"}}
    \cup {[kind |-> "written", size |-> n] : n \in PdfSizes}

\* "os.path.exists(temp_file.name) and os.path.getsize(temp_file.name) > 100"
pdf_valid_any_size(pdfenv) ==
  pdfenv.kind = "written"

pdf_valid(pdfenv) ==
  pdfenv.kind = "written" /\ pdfenv.size > MinPdfSize

\* the fallback shared by the three failure branches
text_fallback(t, fs, pdfenv, txtenv, steps, okStatus, failStatus) ==
  LET r == create_enhanced_text_export(t, fs, txtenv)
  IN  IF r.path # 0
      THEN Result("pdf", r.path, okStatus, Append(steps, "create_enhanced_text_export"),
                  pdfenv, txtenv, r.files)
      ELSE Result("pdf", 0, failStatus, Append(steps, "create_enhanced_text_export"),
                  pdfenv, txtenv, r.files)

\* export_pdf_with_status(text); safe is clean_text_for_pdf(text)
export_pdf_with_status(t, safe, fnt, fs, pdfenv, txtenv) ==
  IF NoContent(t) THEN Result("pdf", 0, "no_content", <<>>, UnusedPdf, "unused", fs)
  ELSE IF pdfenv.kind = "build_raises"
  THEN text_fallback(t, fs, pdfenv, txtenv, <<"clean_text_for_pdf", "FPDF">>,
                     "pdf_error_text_generated", "total_export_failed")
  ELSE IF pdfenv.kind = "output_raises"
  THEN text_fallback(t, fs, pdfenv, txtenv, <<"clean_text_for_pdf", "FPDF", "pdf.output">>,
                     "pdf_failed_text_generated", "export_failed")
  ELSE IF pdf_valid(pdfenv)
  THEN Result("pdf", Len(fs) + 1,
              IF font_loaded(fnt) THEN "pdf_full" ELSE "pdf_converted",
              <<"clean_text_for_pdf", "FPDF", "pdf.output">>, pdfenv, "unused",
              Append(fs, [kind |-> "pdf", content |-> PdfDoc(safe, font_loaded(fnt)),
                          size |-> pdfenv.size]))
  ELSE text_fallback(t, fs, pdfenv, txtenv, <<"clean_text_for_pdf", "FPDF", "pdf.output">>,
                     "pdf_failed_text_generated", "pdf_and_text_failed")

\* safe_export_handler(text, export_type) for the two bound export types
safe_export_handler(t, export_type, safe, fnt, fs, pdfenv, txtenv) ==
  IF NoContent(t) THEN Result(export_type, 0, "no_content", <<>>, UnusedPdf, "unused", fs)
  ELSE IF export_type = "text" THEN export_with_smart_format(t, fs, txtenv)
  ELSE export_pdf_with_status(t, safe, fnt, fs, pdfenv, txtenv)

----------------------------------------------------------------------------
(* Specification SpecSan: clean_text_for_pdf applied to bounded texts *)

\* 'A', space, newline, e-acute, ideographic space U+3000, fullwidth colon,
\* U+7684 (mapped), U+9F99 (unmapped ideograph), U+9FD5 (unmapped ideograph
\* above U+9FA5), U+1F600 (outside every class)
SanChars ==
  {65, 32, 10, 233, 12288, 65306, 30340, 40857, 40917, 128512}

\* further texts: "[CN][CN]", the key ': "\'", ' of punctuation_map, and
\* U+7136 U+800C, mapped only as a two-character word, in both orders
SanScenarios ==
  {CN \o CN, <<58, 32, 34, 39, 34, 44, 32>>, <<28982, 32780>>, <<32780, 28982>>}

SanTexts ==
  SeqsUpTo(SanChars, MaxLen) \cup SanScenarios

InitSan ==
  /\ text \in SanTexts
  /\ cleaned = NotCleaned
  /\ IdleExport /\ IdleStore /\ IdleLen /\ IdleHist

\* clean_text_for_pdf(text), the try block runs to its return
CleanText ==
  /\ ~cleaned.done
  /\ cleaned' = [NotCleaned EXCEPT !.done = TRUE, !.raised = FALSE,
                                   !.value = clean_text_for_pdf(text, FALSE)]
  /\ UNCHANGED <<text, exportVars, storeVars, lenVars, histVars>>

\* clean_text_for_pdf(text), the try block raises and the except block answers
CleanTextRaises ==
  /\ ~cleaned.done
  /\ text # <<>>
  /\ cleaned' = [NotCleaned EXCEPT !.done = TRUE, !.raised = TRUE,
                                   !.value = clean_text_for_pdf(text, TRUE)]
  /\ UNCHANGED <<text, exportVars, storeVars, lenVars, histVars>>

\* clean_text_for_pdf applied to the text it returned, on the path the first
\* call took
CleanTextAgain ==
  /\ cleaned.done /\ ~cleaned.again
  /\ cleaned' = [cleaned EXCEPT !.again = TRUE,
                                !.second = clean_text_for_pdf(cleaned.value, cleaned.raised)]
  /\ UNCHANGED <<text, exportVars, storeVars, lenVars, histVars>>

NextSan ==
  CleanText \/ CleanTextRaises \/ CleanTextAgain

SpecSan ==
  InitSan /\ [][NextSan]_vars

\* C1: on the main path and on the exception-fallback path alike, every
\* character of clean_text_for_pdf(T) has a code point <= 255 (Latin-1).
C1_Latin1Output ==
  cleaned.done => \A i \in 1..Len(cleaned.value) : cleaned.value[i] <= 255

\* a text holding wide whitespace, an unmapped ideograph and an emoji was cleaned
C1_Witness ==
  /\ cleaned.done /\ ~cleaned.raised
  /\ {12288, 40857, 128512} \subseteq Range(text)
  /\ cleaned.value # <<>>

----------------------------------------------------------------------------
(* Specification SpecExport: the export handlers on bounded texts, with the *)
(* font asset and the file system as the environment                        *)

\* 'A', newline, space, ideographic space U+3000, U+4F60, lone surrogate U+D800
ExportChars ==
  {65, 10, 32, 12288, 20320, 55296}

\* "A\nB"
ScenarioText ==
  <<65, 10, 66>>

\* n lines "A", each ended by a newline
ShortLines(n) ==
  [i \in 1..(2 * n) |-> IF i % 2 = 1 THEN 65 ELSE 10]

\* n copies of 'A'
Letters(n) ==
  [i \in 1..n |-> 65]

\* 35 one-letter lines, then a line of two words of 50 letters, then a last
\* one-letter line
PagedText ==
  ShortLines(35) \o Letters(50) \o <<32>> \o Letters(50) \o <<10, 65>>

\* one word of 86 letters; two words of 50 letters
LongWordText ==
  Letters(86)

TwoWordText ==
  Letters(50) \o <<32>> \o Letters(50)

ExportTexts ==
  SeqsUpTo(ExportChars, MaxExportLen)
    \cup {ScenarioText, PagedText, LongWordText, TwoWordText}

\* a pointer file, a file of exactly the threshold size, a real font
FontSizes ==
  {130, MinFontSize, MinFontSize + 1}

FontStates ==
  {NoFont}
    \cup {[exists |-> TRUE, size |-> s, lfs |-> TRUE, loadable |-> FALSE] : s \in FontSizes}
    \cup {[exists |-> TRUE, size |-> s, lfs |-> FALSE, loadable |-> l] :
            s \in FontSizes, l \in BOOLEAN}

\* clean_text_for_pdf on the export texts, computed once per text
SafeText ==
  [t \in ExportTexts |-> [r \in BOOLEAN |-> clean_text_for_pdf(t, r)]]

InitExport ==
  /\ text \in ExportTexts
  /\ cleaned = NotCleaned
  /\ font \in FontStates
  /\ files = <<>>
  /\ ret = NoRet
  /\ exports = 0
  /\ IdleStore /\ IdleLen /\ IdleHist

Return(r, via) ==
  /\ exports < MaxExports
  /\ ret' = [r.ret EXCEPT !.via = via]
  /\ files' = r.files
  /\ exports' = exports + 1
  /\ UNCHANGED <<text, cleaned, font, storeVars, lenVars, histVars>>

\* text_export_btn.click: safe_export_handler(text, "text")
TextExportClick ==
  \E txtenv \in TxtEnvs :
    Return(safe_export_handler(text, "text", <<>>, font, files, UnusedPdf, txtenv), "handler")

\* pdf_export_btn.click: safe_export_handler(text, "pdf")
PdfExportClick ==
  \E raised \in BOOLEAN, pdfenv \in PdfEnvs, txtenv \in TxtEnvs :
    Return(safe_export_handler(text, "pdf", SafeText[text][raised /\ text # <<>>], font, files,
                               pdfenv, txtenv), "handler")

\* export_with_smart_format(text) called directly
ExportWithSmartFormat ==
  \E txtenv \in TxtEnvs :
    Return(export_with_smart_format(text, files, txtenv), "direct")

\* export_pdf_with_status(text) called directly (export_pdf_as_backup)
ExportPdfWithStatus ==
  \E raised \in BOOLEAN, pdfenv \in PdfEnvs, txtenv \in TxtEnvs :
    Return(export_pdf_with_status(text, SafeText[text][raised /\ text # <<>>], font, files,
                                  pdfenv, txtenv), "direct")

NextExport ==
  TextExportClick \/ PdfExportClick \/ ExportWithSmartFormat \/ ExportPdfWithStatus

SpecExport ==
  InitExport /\ [][NextExport]_vars

\* the text is empty or consists of whitespace only
Blank(t) ==
  \A i \in 1..Len(t) : t[i] \in WhitespaceChars

\* the returned artifact
Artifact ==
  files[ret.artifact]

\* the part of a text file between the header and the footer
Body(content, t) ==
  SubSeq(content, Len(Header(t)) + 1, Len(content) - Len(Footer))

\* C2: the text file handed back by the text export is exactly
\* header + T + footer; the body between them is T, character for character.
C2_TextExportLossless ==
  (ret.op = "text" /\ ret.artifact # 0) =>
    /\ Artifact.kind = "txt"
    /\ Artifact.content = Header(text) \o text \o Footer
    /\ Body(Artifact.content, text) = text

\* the scenario text "A\nB" was exported
C2_Witness ==
  ret.op = "text" /\ ret.artifact # 0 /\ text = ScenarioText

\* the PDF attempt failed: an exception, or a file missing or not larger than
\* the minimum size
PdfFailed ==
  \/ ret.pdf.kind \in {"build_raises", "output_raises", "missing"}
  \/ ret.pdf.kind = "written" /\ ret.pdf.size <= MinPdfSize

TextExportFailed ==
  ret.txt # "ok" \/ ~Utf8Encodable(text)

\* C3: a PDF export whose PDF attempt failed runs the text export on the
\* original text and returns its artifact with a "downgraded to text" status;
\* a hard error without artifact is returned only if that text export failed.
C3_DegradationLadder ==
  (ret.op = "pdf" /\ ~Blank(text)) =>
    /\ PdfFailed =>
         /\ ret.steps[Len(ret.steps)] = "create_enhanced_text_export"
         /\ ~TextExportFailed =>
              /\ ret.artifact # 0
              /\ Artifact = TxtFile(TextFileContent(text))
              /\ ret.status \in Downgraded
         /\ TextExportFailed => ret.artifact = 0 /\ ret.status \in HardError
    /\ ret.status \in HardError => PdfFailed /\ TextExportFailed
    /\ ret.artifact = 0 => ret.status \in HardError

\* a PDF of exactly the minimum size was written and the text file returned
C3_Witness ==
  /\ ret.op = "pdf" /\ ret.pdf = [kind |-> "written", size |-> MinPdfSize]
  /\ ret.status = "pdf_failed_text_generated"
  /\ ret.artifact # 0
  /\ 20320 \in Range(text)

\* C4: for an empty or whitespace-only text both export modes return the
\* "no content" error without artifact, write no file and start no step.
C4_NoContentGuard ==
  Blank(text) =>
    /\ files = <<>>
    /\ ret.op # "none" =>
         ret.artifact = 0 /\ ret.status = "no_content" /\ ret.steps = <<>>

\* a text of wide whitespace only went through the PDF export
C4_Witness ==
  /\ ret.op = "pdf" /\ ret.via = "direct"
  /\ text # <<>> /\ 12288 \in Range(text) /\ Blank(text)
  /\ ret.status = "no_content"

\* the claim's case: the font asset is missing, not larger than the minimum
\* size, or carries the pointer signature
FontUnusable ==
  ~font.exists \/ font.size <= MinFontSize \/ font.lfs

\* C5 as stated: with an unusable font asset, a PDF export of non-empty text
\* returns an existing PDF larger than the minimum size with the
\* "converted" status.
C5_Original ==
  (ret.op = "pdf" /\ text # <<>> /\ FontUnusable) =>
    /\ ret.artifact # 0
    /\ Artifact.kind = "pdf" /\ Artifact.size > MinPdfSize
    /\ ret.status = "pdf_converted"

\* C5 (amended): with an unusable font asset, a PDF export of text that is
\* not blank never reports full Chinese support; when the PDF attempt
\* succeeds it returns a PDF larger than the minimum size, set in the
\* built-in font with the notice, under the "converted" status, and when the
\* attempt fails it returns what the degradation ladder returns.
C5_UnusableFontDegrades ==
  (ret.op = "pdf" /\ ~Blank(text) /\ FontUnusable) =>
    /\ ret.status # "pdf_full"
    /\ ~PdfFailed =>
         /\ ret.artifact # 0
         /\ Artifact.kind = "pdf" /\ Artifact.size > MinPdfSize
         /\ Artifact.content.font = "Arial" /\ Artifact.content.notice
         /\ ret.status = "pdf_converted"
    /\ PdfFailed => ret.status \in Downgraded \cup HardError

\* a font file of exactly the minimum size, that a font loader would accept,
\* was found and the PDF came out in converted mode
C5_Witness ==
  /\ ret.op = "pdf" /\ ret.status = "pdf_converted"
  /\ font.exists /\ font.size = MinFontSize /\ ~font.lfs /\ font.loadable
  /\ 20320 \in Range(text)

----------------------------------------------------------------------------
(* CharacterStore: CharacterManager *)

\* None, as the value of avatar_image and as the path of a missing artifact
None ==
  0

\* the keys of a character record that the form fills, in form order
FieldKeys ==
  <<"name", "role_type", "age", "appearance", "personality", "background_story",
    "habits", "relationships">>

\* character_data['avatar_image'] = v
SetAvatar(data, v) ==
  [k \in DOMAIN data \cup {"avatar_image"} |-> IF k = "avatar_image" THEN v ELSE data[k]]

\* "0 <= index < len(self.characters)"
InRange(chars, index) ==
  0 <= index /\ index < Len(chars)

\* characters.json:
\*   "absent"   no such file
\*   "valid"    the JSON array in data
\*   "failed"   the last save raised: the file was not rewritten with the list
\*              (it is untouched if open raised, truncated if the dump raised)
\*   "unparsable" the content is not JSON
\* save_characters opens the file for writing and dumps the whole list; any
\* exception is caught and only logged.  env is what the file system does.
SaveEnvs ==
  {"ok", "fails"}

\* a save that writes the records without their portraits
save_characters_without_portraits(file, chars, env) ==
  IF env = "ok"
  THEN [state |-> "valid", data |-> [i \in 1..Len(chars) |-> SetAvatar(chars[i], None)]]
  ELSE [state |-> "failed", data |-> <<>>]

save_characters(file, chars, env) ==
  IF env = "ok" THEN [state |-> "valid", data |-> chars]
  ELSE [state |-> "failed", data |-> <<>>]

\* load_characters: the list after the call.  Records written before the
\* portrait field existed get avatar_image = None; the parsed content is
\* assigned before the records are looked at, so it stays when a later line
\* raises
load_characters(file) ==
  IF file.state = "valid"
  THEN [i \in 1..Len(file.data) |->
          IF "avatar_image" \in DOMAIN file.data[i] THEN file.data[i]
          ELSE SetAvatar(file.data[i], None)]
  ELSE <<>>

\* load_characters leaves its try block through the except clause: json.load
\* raised, or a record without a name made the listing of the names raise
load_raises(file) ==
  \/ file.state \in {"unparsable", "failed"}
  \/ /\ file.state = "valid"
     /\ \E i \in 1..Len(file.data) : "name" \notin DOMAIN file.data[i]

\* add_character(character_data), before the save
add_character(chars, data) ==
  Append(chars, SetAvatar(data, None))

\* update_character(index, character_data), before the save
update_character_takes_supplied(chars, index, data) ==
  IF InRange(chars, index)
  THEN [chars EXCEPT ![index + 1] =
          IF "avatar_image" \in DOMAIN data /\ data.avatar_image # None THEN data
          ELSE SetAvatar(data, chars[index + 1].avatar_image)]
  ELSE chars

update_character(chars, index, data) ==
  IF InRange(chars, index)
  THEN [chars EXCEPT ![index + 1] =
          SetAvatar(data, IF "avatar_image" \in DOMAIN chars[index + 1]
                          THEN chars[index + 1].avatar_image
                          ELSE None)]
  ELSE chars

\* update_character_image(index, image_data), before the save
update_character_image(chars, index, image_data) ==
  IF InRange(chars, index)
  THEN [chars EXCEPT ![index + 1] = SetAvatar(chars[index + 1], image_data)]
  ELSE chars

\* delete_character(index), before the save
delete_character_last(chars, index) ==
  IF InRange(chars, index) THEN SubSeq(chars, 1, Len(chars) - 1) ELSE chars

delete_character(chars, index) ==
  IF InRange(chars, index)
  THEN SubSeq(chars, 1, index) \o SubSeq(chars, index + 2, Len(chars))
  ELSE chars

\* character_exists(name, role_type)
character_exists_case_sensitive(chars, name, role_type) ==
  \E i \in 1..Len(chars) :
    /\ strip(chars[i].name) = strip(name)
    /\ strip(chars[i].role_type) = strip(role_type)

character_exists(chars, name, role_type) ==
  \E i \in 1..Len(chars) :
    /\ lower(strip(chars[i].name)) = lower(strip(name))
    /\ lower(strip(chars[i].role_type)) = lower(strip(role_type))

\* Strings used for the profiles
Li ==
  <<76, 105>>

Bo ==
  <<66, 111>>

Hero ==
  <<72, 101, 114, 111>>

Foe ==
  <<70, 111, 101>>

\* a profile whose six descriptive fields all hold d
Profile(n, r, d) ==
  [name |-> n, role_type |-> r, age |-> d, appearance |-> d, personality |-> d,
   background_story |-> d, habits |-> d, relationships |-> d]

\* A record saved by a version without portraits: " LI" / "HERO", no
\* avatar_image key
LegacyRecord ==
  Profile(<<32, 76, 73>>, <<72, 69, 82, 79>>, <<>>)

\* characters.json when the application starts
StartFiles ==
  {[state |-> "absent", data |-> <<>>], [state |-> "valid", data |-> <<LegacyRecord>>]}

----------------------------------------------------------------------------
(* Specification SpecStore: the CharacterManager methods called with        *)
(* arbitrary bounded arguments                                              *)

\* portrait blobs: 1 is stored through update_character_image, 2 is carried
\* by a profile handed to update_character
StoredBlob ==
  1

SuppliedBlob ==
  2

ApiProfiles ==
  {Profile(Li, Hero, <<>>), Profile(Bo, Hero, <<55>>),
   SetAvatar(Profile(Bo, Hero, <<55>>), SuppliedBlob)}

ApiIndices ==
  -1..MaxChars

InitStore ==
  /\ charfile \in StartFiles
  /\ characters = load_characters(charfile)
  /\ character_index = -1
  /\ last_op = NoOp
  /\ IdleSan /\ IdleExport /\ IdleLen /\ IdleHist

\* the method body ran: the list changed to chars and, when the method got as
\* far as save_characters, the file was rewritten
Mutate(op, index, data, chars, saves) ==
  /\ characters' = chars
  /\ \E env \in SaveEnvs :
       /\ charfile' = IF saves THEN save_characters(charfile, chars, env) ELSE charfile
       /\ last_op' = [op |-> op, index |-> index, data |-> data, before |-> Len(characters),
                      saved |-> saves /\ env = "ok"]
  /\ UNCHANGED <<character_index, sanVars, exportVars, lenVars, histVars>>

AddCharacter ==
  \E data \in ApiProfiles :
    /\ Len(characters) < MaxChars
    /\ Mutate("add_character", Len(characters), data, add_character(characters, data), TRUE)

UpdateCharacter ==
  \E index \in ApiIndices, data \in ApiProfiles :
    Mutate("update_character", index, data, update_character(characters, index, data),
           InRange(characters, index))

UpdateCharacterImage ==
  \E index \in ApiIndices :
    Mutate("update_character_image", index, StoredBlob,
           update_character_image(characters, index, StoredBlob), InRange(characters, index))

DeleteCharacter ==
  \E index \in ApiIndices :
    Mutate("delete_character", index, None, delete_character(characters, index),
           InRange(characters, index))

NextStore ==
  AddCharacter \/ UpdateCharacter \/ UpdateCharacterImage \/ DeleteCharacter

SpecStore ==
  InitStore /\ [][NextStore]_vars

\* C7: delete(i) with 0 <= i < length removes exactly the record at position
\* i: the list is one shorter, the records before i stay where they are and
\* each record after i moves down by one, unchanged.
C7_DeleteShifts ==
  [][(last_op'.op = "delete_character"
        /\ 0 <= last_op'.index /\ last_op'.index < Len(characters)) =>
       LET i == last_op'.index
       IN  /\ Len(characters') = Len(characters) - 1
           /\ \A j \in 0..(i - 1) : characters'[j + 1] = characters[j + 1]
           /\ \A j \in (i + 1)..(Len(characters) - 1) : characters'[j] = characters[j + 1]
    ]_vars

\* the middle record of three was deleted
C7_Witness ==
  /\ last_op.op = "delete_character" /\ last_op.index = 1 /\ last_op.before = 3
  /\ Len(characters) = 2
  /\ characters[1] # characters[2]

\* the supplied profile carries a portrait
CarriesPortrait(data) ==
  "avatar_image" \in DOMAIN data /\ data.avatar_image # None

\* the fields of the supplied profile are stored at position i (0-based) and
\* every other record is unchanged
UpdateFrame(i, data) ==
  /\ Len(characters') = Len(characters)
  /\ \A k \in 1..Len(FieldKeys) : characters'[i + 1][FieldKeys[k]] = data[FieldKeys[k]]
  /\ \A j \in 1..Len(characters) : j # i + 1 => characters'[j] = characters[j]

\* C9 as stated: after update(i, profile) on a valid index the portrait at i
\* is the stored one if the profile carries none and the supplied one if it
\* carries one; the other fields are the profile's, other records unchanged.
C9_Original ==
  [][(last_op'.op = "update_character"
        /\ 0 <= last_op'.index /\ last_op'.index < Len(characters)) =>
       LET i == last_op'.index
           data == last_op'.data
       IN  /\ characters'[i + 1].avatar_image =
                IF CarriesPortrait(data) THEN data.avatar_image
                ELSE characters[i + 1].avatar_image
           /\ UpdateFrame(i, data)
    ]_vars

\* C9 (amended): after update(i, profile) on a valid index the portrait at i
\* is the previously stored portrait, whether or not the profile carries one;
\* the other fields are the profile's and every other record is unchanged.
C9_UpdateKeepsPortrait ==
  [][(last_op'.op = "update_character"
        /\ 0 <= last_op'.index /\ last_op'.index < Len(characters)) =>
       LET i == last_op'.index
           data == last_op'.data
       IN  /\ characters'[i + 1].avatar_image = characters[i + 1].avatar_image
           /\ UpdateFrame(i, data)
    ]_vars

\* a record with a stored portrait was updated with a profile that carries
\* another portrait, next to a second record
C9_Witness ==
  /\ last_op.op = "update_character" /\ last_op.index = 0
  /\ Len(characters) = 2
  /\ CarriesPortrait(last_op.data)
  /\ characters[1].avatar_image = StoredBlob
  /\ characters[1].age = <<55>>

----------------------------------------------------------------------------
(* Specification SpecUI: the character handlers of build_ui, one browser   *)
(* session, starting from the characters.json found at startup             *)

\* what the form can hold; the six descriptive fields hold "7 ":
\* "Li" / "Hero", " li" / "hero ", "Bo" / "Hero" and " " / "Hero"
FormInputs ==
  {<<nr[1], nr[2], <<55, 32>>, <<55, 32>>, <<55, 32>>, <<55, 32>>, <<55, 32>>, <<55, 32>>>> :
     nr \in {<<Li, Hero>>, <<<<32, 108, 105>>, <<104, 101, 114, 111, 32>>>>,
             <<Bo, Hero>>, <<<<32>>, Hero>>}}

\* {key: val.strip() for key, val in zip([...], inputs)}
char_data(inputs) ==
  [k \in {FieldKeys[i] : i \in 1..Len(FieldKeys)} |->
     strip(inputs[CHOOSE i \in 1..Len(FieldKeys) : FieldKeys[i] = k])]

\* labels that number the records from 1
get_dropdown_choices_one_based(chars) ==
  [i \in 1..Len(chars) |->
     Digits(i) \o <<58, 32>> \o chars[i].name \o <<32, 40>> \o chars[i].role_type \o <<41>>]

\* get_dropdown_choices(): f"{i}: {char['name']} ({char['role_type']})"
get_dropdown_choices(chars) ==
  [i \in 1..Len(chars) |->
     Digits(i - 1) \o <<58, 32>> \o chars[i].name \o <<32, 40>> \o chars[i].role_type \o <<41>>]

\* label.split(":")[0]
BeforeColon(label) ==
  IF \A i \in 1..Len(label) : label[i] # 58 THEN label
  ELSE SubSeq(label, 1, (CHOOSE i \in 1..Len(label) :
                           label[i] = 58 /\ \A j \in 1..(i - 1) : label[j] # 58) - 1)

RECURSIVE DigitsValue(_)
DigitsValue(s) ==
  IF s = <<>> THEN 0 ELSE 10 * DigitsValue(SubSeq(s, 1, Len(s) - 1)) + (s[Len(s)] - 48)

\* int(character_name.split(":")[0]); -1 stands for the ValueError branch,
\* which returns index -1
ParseIndex(label) ==
  LET digits == strip(BeforeColon(label))
  IN  IF digits # <<>> /\ \A i \in 1..Len(digits) : 48 <= digits[i] /\ digits[i] <= 57
      THEN DigitsValue(digits)
      ELSE -1

InitUI ==
  /\ charfile \in StartFiles
  /\ characters = load_characters(charfile)
  /\ character_index = -1
  /\ last_op = NoOp
  /\ IdleSan /\ IdleExport /\ IdleLen /\ IdleHist

\* the outcome of a handler: the list, whether save_characters ran, the value
\* written to the hidden index component and the message shown
Handled(op, inputs, chars, saves, index, message, deleted) ==
  /\ characters' = chars
  /\ character_index' = index
  /\ \E env \in SaveEnvs :
       /\ charfile' = IF saves THEN save_characters(charfile, chars, env) ELSE charfile
       /\ last_op' = [op |-> op, index |-> character_index, data |-> inputs,
                      before |-> Len(characters), saved |-> saves /\ env = "ok",
                      message |-> message, deleted |-> deleted]
  /\ UNCHANGED <<sanVars, exportVars, lenVars, histVars>>

\* add_character_handler(*inputs)
AddCharacterHandler ==
  \E inputs \in FormInputs :
    LET name == strip(inputs[1])
        role_type == strip(inputs[2])
    IN  IF name = <<>>
        THEN Handled("add_handler", inputs, characters, FALSE, -1, "empty_name", <<>>)
        ELSE IF character_exists(characters, name, role_type)
        THEN Handled("add_handler", inputs, characters, FALSE, -1, "duplicate", <<>>)
        ELSE /\ Len(characters) < MaxChars
             /\ Handled("add_handler", inputs, add_character(characters, char_data(inputs)),
                        TRUE, -1, "added", <<>>)

\* update_character_handler(index, *inputs)
UpdateCharacterHandler ==
  \E inputs \in FormInputs :
    IF character_index = -1
    THEN Handled("update_handler", inputs, characters, FALSE, character_index,
                 "no_selection", <<>>)
    ELSE IF strip(inputs[1]) = <<>>
    THEN Handled("update_handler", inputs, characters, FALSE, character_index,
                 "empty_name", <<>>)
    ELSE Handled("update_handler", inputs,
                 update_character(characters, character_index, char_data(inputs)),
                 InRange(characters, character_index), -1, "updated", <<>>)

\* delete_character_handler(index); an index past the end raises IndexError
\* at characters[index] and no output is written
DeleteCharacterHandler ==
  IF character_index = -1
  THEN Handled("delete_handler", <<>>, characters, FALSE, -1, "no_selection", <<>>)
  ELSE IF ~InRange(characters, character_index)
  THEN Handled("delete_handler", <<>>, characters, FALSE, character_index, "raised", <<>>)
  ELSE Handled("delete_handler", <<>>, delete_character(characters, character_index),
               TRUE, -1, "deleted", <<characters[character_index + 1]>>)

\* character_list.change -> load_character_with_image(character_name): the
\* user picks one of the labels on offer, or clears the selection
LoadCharacterWithImage ==
  \E pick \in 0..Len(characters) :
    LET char_index == IF pick = 0 THEN -1
                      ELSE ParseIndex(get_dropdown_choices(characters)[pick])
    IN  Handled("select", <<pick>>, characters, FALSE,
                IF InRange(characters, char_index) THEN char_index ELSE -1,
                "selected", <<>>)

\* clear_form_btn.click -> clear_form()
ClearForm ==
  Handled("clear_form", <<>>, characters, FALSE, -1, "none", <<>>)

\* what call_qianfan_image_api hands back: no image, or the image data
ImageReplies ==
  {None, StoredBlob}

\* generate_image_btn.click -> generate_image_handler(character_index), with
\* generate_character_image; character_index is not among the outputs
GenerateImageHandler ==
  IF character_index = -1
  THEN Handled("generate_image", <<>>, characters, FALSE, character_index, "no_selection", <<>>)
  ELSE IF character_index >= Len(characters)
  THEN Handled("generate_image", <<>>, characters, FALSE, character_index, "invalid", <<>>)
  ELSE \E image_data \in ImageReplies :
         IF image_data # None
         THEN Handled("generate_image", <<>>,
                      update_character_image(characters, character_index, image_data),
                      InRange(characters, character_index), character_index, "image", <<>>)
         ELSE Handled("generate_image", <<>>, characters, FALSE, character_index,
                      "no_image", <<>>)

NextUI ==
  \/ AddCharacterHandler
  \/ UpdateCharacterHandler
  \/ DeleteCharacterHandler
  \/ LoadCharacterWithImage
  \/ ClearForm
  \/ GenerateImageHandler

SpecUI ==
  InitUI /\ [][NextUI]_vars

\* the identity key of a profile: trimmed, lower-cased (name, role_type)
IdentityKey(name, role_type) ==
  <<lower(strip(name)), lower(strip(role_type))>>

\* C6: an add whose trimmed, lower-cased (name, role_type) equals that of a
\* stored profile is rejected as a duplicate and leaves the in-memory list
\* and the persisted file unchanged.
C6_DuplicateAddRejected ==
  [][(last_op'.op = "add_handler"
        /\ \E i \in 1..Len(characters) :
             IdentityKey(characters[i].name, characters[i].role_type)
               = IdentityKey(last_op'.data[1], last_op'.data[2])) =>
       /\ last_op'.message = "duplicate"
       /\ characters' = characters
       /\ charfile' = charfile
    ]_vars

\* " li" / "hero " was submitted while "Li" / "Hero" was stored
C6_Witness ==
  /\ last_op.op = "add_handler" /\ last_op.message = "duplicate"
  /\ last_op.data[1] = <<32, 108, 105>> /\ last_op.data[2] = <<104, 101, 114, 111, 32>>
  /\ \E i \in 1..Len(characters) : characters[i].name = Li /\ characters[i].role_type = Hero

\* C8: after the delete of a stored record, exists(name, role_type) with the
\* deleted record's name and role_type returns false.
C8_DeletedNoLongerExists ==
  (last_op.op = "delete_handler" /\ last_op.message = "deleted") =>
    ~character_exists(characters, last_op.deleted[1].name, last_op.deleted[1].role_type)

----------------------------------------------------------------------------
(* ScriptComposer: call_deepseek_api, adjust_script_length, generate_script *)

\* "错误：未配置 DeepSeek API 密钥。"
NoKeyMessage ==
  <<38169, 35823, 65306, 26410, 37197, 32622, 32, 68, 101, 101, 112, 83, 101, 101, 107, 32,
    65, 80, 73, 32, 23494, 38053, 12290>>

\* "调用 DeepSeek API 出错："
ErrorPrefix ==
  <<35843, 29992, 32, 68, 101, 101, 112, 83, 101, 101, 107, 32, 65, 80, 73, 32, 20986,
    38169, 65306>>

\* "出错"
ErrorMarker ==
  <<20986, 38169>>

\* the temperature of the expansion request, 0.7, in tenths
ExpandTemperature ==
  7

\* target_max = int(word_limit) + 100
WindowWidth ==
  100

\* call_deepseek_api(prompt, temperature): the string returned.  api_key says
\* whether DEEPSEEK_API_KEY is set; reply is what the service does, an answer
\* (kind "ok", text = the content) or a failure (kind "exception", text = str(e)).
call_deepseek_api(api_key, reply) ==
  IF ~api_key THEN NoKeyMessage
  ELSE IF reply.kind = "exception" THEN ErrorPrefix \o reply.text
  ELSE reply.text

\* a split pattern that also splits after the comma
SentenceEnd_with_comma ==
  {12290, 65281, 65311, 65292}

\* the sentence-final marks of the split pattern
SentenceEnd ==
  {12290, 65281, 65311}

\* re.split(r'(?<=[。！？])', script)
RECURSIVE SplitSentences(_)
SplitSentences(s) ==
  IF \A i \in 1..Len(s) : s[i] \notin SentenceEnd THEN <<s>>
  ELSE LET k == CHOOSE i \in 1..Len(s) :
                  s[i] \in SentenceEnd /\ \A j \in 1..(i - 1) : s[j] \notin SentenceEnd
       IN  <<SubSeq(s, 1, k)>> \o SplitSentences(SubSeq(s, k + 1, Len(s)))

\* the loop over sentences, from sentence i on
RECURSIVE Accumulate(_, _, _, _, _)
Accumulate(sentences, i, new_script, char_count, target_max) ==
  IF i > Len(sentences) THEN new_script
  ELSE IF char_count + count_words(sentences[i]) > target_max THEN new_script
  ELSE Accumulate(sentences, i + 1, new_script \o sentences[i],
                  char_count + count_words(sentences[i]), target_max)

\* adjust_script_length(script, word_limit): the text returned and the
\* requests issued; word_limit 0 stands for every falsy value
adjust_script_length_no_check(script_in, word_limit, temperature, api_key, reply) ==
  LET target_min == word_limit
      target_max == word_limit + WindowWidth
      current_words == count_words(script_in)
  IN  IF word_limit = 0 THEN [text |-> script_in, calls |-> <<>>, passes |-> <<>>]
      ELSE IF current_words < target_min
      THEN [text |-> call_deepseek_api(api_key, reply),
            calls |-> <<[purpose |-> "expand", temperature |-> ExpandTemperature]>>,
            passes |-> <<"expand">>]
      ELSE IF current_words > target_max
      THEN [text |-> strip(Accumulate(SplitSentences(script_in), 1, <<>>, 0, target_max)),
            calls |-> <<>>, passes |-> <<"truncate">>]
      ELSE [text |-> script_in, calls |-> <<>>, passes |-> <<>>]

adjust_script_length(script_in, word_limit, temperature, api_key, reply) ==
  LET target_min == word_limit
      target_max == word_limit + WindowWidth
      current_words == count_words(script_in)
  IN  IF word_limit = 0 THEN [text |-> script_in, calls |-> <<>>, passes |-> <<>>]
      ELSE IF current_words < target_min
      THEN LET expanded_script == call_deepseek_api(api_key, reply)
           IN  [text |-> IF ~Contains(expanded_script, ErrorMarker) THEN expanded_script
                         ELSE script_in,
                calls |-> <<[purpose |-> "expand", temperature |-> ExpandTemperature]>>,
                passes |-> <<"expand">>]
      ELSE IF current_words > target_max
      THEN [text |-> strip(Accumulate(SplitSentences(script_in), 1, <<>>, 0, target_max)),
            calls |-> <<>>, passes |-> <<"truncate">>]
      ELSE [text |-> script_in, calls |-> <<>>, passes |-> <<>>]

\* a generate_script that adjusts the adjusted text once more
generate_script_rechecked(word_limit, temperature, api_key, reply1, reply2) ==
  LET first == call_deepseek_api(api_key, reply1)
      adjusted == adjust_script_length(first, word_limit, temperature, api_key, reply2)
      again == adjust_script_length(adjusted.text, word_limit, temperature, api_key, reply2)
  IN  [text |-> again.text,
       calls |-> <<[purpose |-> "generate", temperature |-> temperature]>>
                   \o adjusted.calls \o again.calls,
       passes |-> adjusted.passes \o again.passes,
       first |-> first]

\* generate_script(..., temperature, word_limit): the first request and the
\* length adjustment
generate_script(word_limit, temperature, api_key, reply1, reply2) ==
  LET first == call_deepseek_api(api_key, reply1)
      adjusted == adjust_script_length(first, word_limit, temperature, api_key, reply2)
  IN  [text |-> adjusted.text,
       calls |-> <<[purpose |-> "generate", temperature |-> temperature]>> \o adjusted.calls,
       passes |-> adjusted.passes,
       first |-> first]

----------------------------------------------------------------------------
(* Specification SpecLen: generate_script with the chat-completion service *)
(* as the environment                                                       *)

\* n times the ideograph "你"
Ideographs(n) ==
  [i \in 1..n |-> 20320]

\* long answers, counted against the targets 3 and 8 (windows up to 103 and 108):
\* 104 ideographs in sentences of 100, 3 and 1
LongThreeSentences ==
  Ideographs(100) \o <<12290>> \o Ideographs(3) \o <<65281>> \o Ideographs(1)

\* 103 ideographs and no sentence-final mark
LongNoMark ==
  Ideographs(103)

\* 110 ideographs: a space, a sentence of 60, then 40, a comma and 10
LongWithComma ==
  <<32>> \o Ideographs(60) \o <<12290>> \o Ideographs(40) \o <<65292>> \o Ideographs(10)

\* answers of the service: "", "你好", "好？", "你。好你好你", "A出错" and the long ones
AnswerTexts ==
  {<<>>, <<20320, 22909>>, <<22909, 65311>>, <<20320, 12290, 22909, 20320, 22909, 20320>>,
   <<65, 20986, 38169>>, LongThreeSentences, LongNoMark, LongWithComma}

\* str(e) of a failed request: "timed out"
FailureTexts ==
  {<<116, 105, 109, 101, 100, 32, 111, 117, 116>>}

Replies ==
  {[kind |-> "ok", text |-> t] : t \in AnswerTexts}
    \cup {[kind |-> "exception", text |-> t] : t \in FailureTexts}

\* the word_limit field: empty (0), 3, 8 and -150 (the field takes any integer)
WordLimits ==
  {0, 3, 8, -150}

\* the temperature slider, in tenths
Temperatures ==
  {7, 9}

InitLen ==
  /\ script = <<>>
  /\ requests = <<>>
  /\ gen \in {[NoGen EXCEPT !.api_key = k] : k \in BOOLEAN}
  /\ IdleSan /\ IdleExport /\ IdleStore /\ IdleHist

\* one call of generate_script
GenerateScript ==
  \E word_limit \in WordLimits, temperature \in Temperatures, reply1 \in Replies,
     reply2 \in Replies :
    LET r == generate_script(word_limit, temperature, gen.api_key, reply1, reply2)
        expanded == Len(r.calls) > 1
    IN  /\ script' = r.text
        /\ requests' = r.calls
        /\ gen' = [done |-> TRUE, api_key |-> gen.api_key, word_limit |-> word_limit,
                   first |-> r.first, passes |-> r.passes,
                   expansion |->
                     IF expanded
                     THEN [failed |-> ~gen.api_key \/ reply2.kind = "exception",
                           text |-> call_deepseek_api(gen.api_key, reply2)]
                     ELSE NoExpansion]
        /\ UNCHANGED <<sanVars, exportVars, storeVars, histVars>>

NextLen ==
  GenerateScript

SpecLen ==
  InitLen /\ [][NextLen]_vars

\* the claim's case: a target is set and the generated text counts fewer
\* ideographs than the target
BelowTarget ==
  gen.done /\ gen.word_limit # 0 /\ count_words(gen.first) < gen.word_limit

ExactlyOneExpansion ==
  /\ Len(requests) = 2
  /\ requests[2] = [purpose |-> "expand", temperature |-> ExpandTemperature]

\* C10 as stated: below the target exactly one expansion request is issued at
\* temperature 0.7; if that request failed the original text is returned,
\* otherwise the text that request returned.
C10_Original ==
  BelowTarget =>
    /\ ExactlyOneExpansion
    /\ gen.expansion.failed => script = gen.first
    /\ ~gen.expansion.failed => script = gen.expansion.text

\* C10 (amended): below the target exactly one expansion request is issued
\* at temperature 0.7; if the text that request returned contains the error
\* marker the original text is returned, otherwise the text that request
\* returned; the error string of a request that raised always contains the
\* marker.
C10_ExpansionOnce ==
  BelowTarget =>
    /\ ExactlyOneExpansion
    /\ Contains(gen.expansion.text, ErrorMarker) => script = gen.first
    /\ ~Contains(gen.expansion.text, ErrorMarker) => script = gen.expansion.text
    /\ (gen.api_key /\ gen.expansion.failed) => script = gen.first

\* a genuine answer was below the target, the expansion request raised and
\* the answer was kept
C10_Witness ==
  /\ BelowTarget /\ gen.api_key
  /\ gen.expansion.failed
  /\ gen.first = <<20320, 22909>>
  /\ script = gen.first
  /\ requests[1].temperature = 9

----------------------------------------------------------------------------
(* Truncation *)

\* the sentence-final marks 。 ！ ？
SentenceFinalMarks ==
  {12290, 65281, 65311}

\* the first k characters of the generated text
Leading(k) ==
  SubSeq(gen.first, 1, k)

\* k is a sentence boundary of the generated text: the start of the text or
\* the position of a sentence-final mark
SentenceBoundary(k) ==
  k = 0 \/ (k \in 1..Len(gen.first) /\ gen.first[k] \in SentenceFinalMarks)

EndsOnSentence(t) ==
  t = <<>> \/ t[Len(t)] \in SentenceFinalMarks

\* the last sentence boundary up to which the text counts at most max
\* ideographs, 0 when there is none
LastBoundaryWithin(max) ==
  LET fits == {k \in 1..Len(gen.first) :
                 SentenceBoundary(k) /\ count_words(Leading(k)) <= max}
  IN  IF fits = {} THEN 0 ELSE CHOOSE k \in fits : \A j \in fits : j <= k

\* C11 as stated: when the ideographic count of the text is >= W+100 the
\* result is the concatenation of leading whole sentences of the text, counts
\* fewer than W+100 ideographs and ends with a sentence-final mark or is empty.
C11_Original ==
  (gen.done /\ gen.word_limit > 0
     /\ count_words(gen.first) >= gen.word_limit + 100) =>
    /\ \E k \in 0..Len(gen.first) : SentenceBoundary(k) /\ script = Leading(k)
    /\ count_words(script) < gen.word_limit + 100
    /\ EndsOnSentence(script)

\* C11 (amended): when the ideographic count of the text is > W+100 the
\* result is the text up to its last sentence boundary within W+100
\* ideographs (empty when there is none), with surrounding whitespace
\* stripped; it ends with a sentence-final mark or is empty and no request is
\* issued for it.  A text of exactly W+100 ideographs is returned unchanged.
C11_TruncationWholeSentences ==
  /\ (gen.done /\ gen.word_limit # 0
        /\ count_words(gen.first) > gen.word_limit + 100) =>
       LET k == LastBoundaryWithin(gen.word_limit + 100)
       IN  /\ script = strip(Leading(k))
           /\ EndsOnSentence(script)
           /\ k > 0 => count_words(script) <= gen.word_limit + 100
           /\ Len(requests) = 1
  /\ (gen.done /\ gen.word_limit # 0
        /\ count_words(gen.first) = gen.word_limit + 100) =>
       script = gen.first

\* the answer of 110 ideographs was cut after its first sentence for the
\* target 3, and the leading space was stripped
C11_Witness ==
  /\ gen.done /\ gen.word_limit = 3
  /\ gen.first = LongWithComma
  /\ script = Ideographs(60) \o <<12290>>

----------------------------------------------------------------------------
(* Single pass *)

\* the requests of the call with the given purpose
RequestsFor(purpose) ==
  {i \in 1..Len(requests) : requests[i].purpose = purpose}

\* C12: one generation call applies at most one pass of the length policy,
\* an expansion (one request) or a truncation (no request), never both; the
\* text an expansion returned is the result even when it is outside the
\* window; the call issues at most two chat-completion requests.
C12_SinglePass ==
  gen.done =>
    /\ Len(requests) <= 2
    /\ Cardinality(RequestsFor("generate")) = 1
    /\ Cardinality(RequestsFor("expand")) <= 1
    /\ gen.passes \in {<<>>, <<"expand">>, <<"truncate">>}
    /\ Cardinality(RequestsFor("expand")) = (IF gen.passes = <<"expand">> THEN 1 ELSE 0)
    /\ (gen.passes = <<"expand">> /\ ~Contains(gen.expansion.text, ErrorMarker)) =>
         script = gen.expansion.text

\* the expansion of a short answer came back with 110 ideographs for the
\* target 3 and was returned as it was
C12_Witness ==
  /\ gen.done /\ gen.word_limit = 3
  /\ gen.first = <<20320, 22909>>
  /\ gen.passes = <<"expand">>
  /\ Len(requests) = 2
  /\ script = LongWithComma
  /\ count_words(script) > gen.word_limit + 100

----------------------------------------------------------------------------
(* Fixed points of the sanitizer *)

\* a key of the punctuation table whose replacement differs from it occurs in t
HasMappedPunctuation(t) ==
  \E i \in 1..Len(punctuation_map) :
    /\ punctuation_map[i][1] # punctuation_map[i][2]
    /\ Contains(t, punctuation_map[i][1])

\* a character of the ideograph block U+4E00..U+9FFF occurs in t
HasCJK(t) ==
  \E i \in 1..Len(t) : 19968 <= t[i] /\ t[i] <= 40959

\* whitespace occurs in t only as single ASCII spaces between other characters
SingleSpaced(t) ==
  /\ \A i \in 1..Len(t) : IsSpace(t[i]) => t[i] = 32
  /\ \A i \in 1..(Len(t) - 1) : ~(t[i] = 32 /\ t[i + 1] = 32)
  /\ t # <<>> => (t[1] # 32 /\ t[Len(t)] # 32)

\* C13 as stated: a text with no CJK character and none of the mapped
\* punctuation marks is returned unchanged.
C13_Original ==
  (cleaned.done /\ ~HasCJK(text) /\ ~HasMappedPunctuation(text)) =>
    cleaned.value = text

\* C13 (amended): on the main path a text of Latin-1 characters (<= U+00FF)
\* that holds no mapped punctuation key, no two adjacent markers "[CN][CN]"
\* and whitespace only as single ASCII spaces between other characters is
\* returned unchanged; on the fallback path a text of ASCII characters is
\* returned unchanged.
C13_CleanIsIdentity ==
  /\ (cleaned.done /\ ~cleaned.raised
        /\ (\A i \in 1..Len(text) : text[i] <= 255)
        /\ ~HasMappedPunctuation(text)
        /\ ~Contains(text, <<91, 67, 78, 93, 91, 67, 78, 93>>)
        /\ SingleSpaced(text)) =>
       cleaned.value = text
  /\ (cleaned.done /\ cleaned.raised /\ (\A i \in 1..Len(text) : text[i] < 128)) =>
       cleaned.value = text

\* "e-acute, space, A" went through the main path and came back unchanged
C13_Witness ==
  /\ cleaned.done /\ ~cleaned.raised
  /\ text = <<233, 32, 65>>
  /\ cleaned.value = text

----------------------------------------------------------------------------
(* Counting ideographs *)

\* the characters of t in the ideograph block U+4E00..U+9FFF, the characters
\* step 4 of the sanitizer treats as ideographs
IdeographPositions(t) ==
  {i \in 1..Len(t) : 19968 <= t[i] /\ t[i] <= 40959}

\* C14: count_words(T) is the number of characters of T in the ideograph
\* block U+4E00..U+9FFF, the characters the sanitizer treats as ideographs.
C14_CountMatchesSanitizer ==
  cleaned.done => count_words(text) = Cardinality(IdeographPositions(text))

----------------------------------------------------------------------------
(* Save after every mutation *)

\* the methods of the store that take an index
IndexedOps ==
  {"update_character", "update_character_image", "delete_character"}

\* C15: when add, update, updateImage or delete has changed the list and its
\* write succeeded, the record file holds exactly the in-memory list; add and
\* every indexed method with a valid index attempt the write; an indexed
\* method with an out-of-range index changes neither the list nor the file.
C15_SaveFollowsMutation ==
  [][/\ last_op'.saved => charfile' = [state |-> "valid", data |-> characters']
     /\ (last_op'.op = "add_character"
           \/ (last_op'.op \in IndexedOps
                 /\ 0 <= last_op'.index /\ last_op'.index < Len(characters))) =>
          \/ charfile' = [state |-> "valid", data |-> characters']
          \/ (charfile'.state = "failed" /\ ~last_op'.saved)
     /\ (last_op'.op \in IndexedOps
           /\ ~(0 <= last_op'.index /\ last_op'.index < Len(characters))) =>
          (characters' = characters /\ charfile' = charfile)
    ]_vars

\* a portrait was stored in the second of two records and the file holds
\* both records with it
C15_Witness ==
  /\ last_op.op = "update_character_image" /\ last_op.index = 1 /\ last_op.saved
  /\ Len(characters) = 2
  /\ characters[2].avatar_image = StoredBlob
  /\ charfile = [state |-> "valid", data |-> characters]

----------------------------------------------------------------------------
(* The current character index *)

\* the step kept every record at its position; only portraits may differ
PositionsKept ==
  /\ Len(characters') = Len(characters)
  /\ \A j \in 1..Len(characters) :
       \A k \in 1..Len(FieldKeys) : characters'[j][FieldKeys[k]] = characters[j][FieldKeys[k]]

\* C16: the current character index is -1 or a position of the list; a
\* selection sets it to the position of the record picked (-1 when the
\* selection is cleared); add, clear form and every delete reset it to -1; any
\* other step that leaves it set leaves it as it was and keeps every record at
\* its position, so no action runs with an index selected before a deletion.
C16_IndexCurrent ==
  /\ [](character_index = -1
         \/ (0 <= character_index /\ character_index < Len(characters)))
  /\ [][
         /\ last_op'.op = "select" => character_index' = last_op'.data[1] - 1
         /\ last_op'.op \in {"add_handler", "clear_form"} => character_index' = -1
         /\ (last_op'.op = "delete_handler" /\ Len(characters') < Len(characters)) =>
              character_index' = -1
         /\ (last_op'.op # "select" /\ character_index' # -1) =>
              (character_index' = character_index /\ PositionsKept)
        ]_vars

\* the second of two records was selected and a portrait was generated for
\* it; the index still points at it
C16_Witness ==
  /\ last_op.op = "generate_image" /\ last_op.message = "image"
  /\ character_index = 1
  /\ Len(characters) = 2
  /\ characters[2].avatar_image = StoredBlob
  /\ characters[1].avatar_image = None

----------------------------------------------------------------------------
(* Specification SpecLoad: CharacterManager() on the characters.json found *)

\* a JSON object without a name
NamelessRecord ==
  [role_type |-> Hero]

\* the records a file may hold
LoadRecords ==
  {LegacyRecord, NamelessRecord, SetAvatar(Profile(Li, Hero, <<>>), None),
   SetAvatar(Profile(Bo, Hero, <<55>>), StoredBlob)}

LoadFiles ==
  {[state |-> "absent", data |-> <<>>], [state |-> "unparsable", data |-> <<>>]}
    \cup {[state |-> "valid", data |-> d] : d \in SeqsUpTo(LoadRecords, MaxChars)}

\* __init__ has run "self.characters = []"
InitLoad ==
  /\ charfile \in LoadFiles
  /\ characters = <<>>
  /\ character_index = -1
  /\ last_op = NoOp
  /\ IdleSan /\ IdleExport /\ IdleLen /\ IdleHist

\* self.load_characters()
LoadCharacters ==
  /\ last_op = NoOp
  /\ characters' = load_characters(charfile)
  /\ last_op' = [op |-> "load", raised |-> load_raises(charfile)]
  /\ UNCHANGED <<charfile, character_index, sanVars, exportVars, lenVars, histVars>>

NextLoad ==
  LoadCharacters

SpecLoad ==
  InitLoad /\ [][NextLoad]_vars

\* C17: after a load that failed (missing file, unparsable content, or a
\* parsed file with a malformed record) the in-memory list is empty.
C17_FailedLoadLeavesEmpty ==
  (last_op.op = "load"
     /\ (charfile.state \in {"absent", "unparsable"}
          \/ \E i \in 1..Len(charfile.data) : "name" \notin DOMAIN charfile.data[i])) =>
    characters = <<>>

----------------------------------------------------------------------------
(* Idempotence of the sanitizer *)

\* C18: cleaning the cleaned text once more on the main path returns it
\* unchanged: clean(clean(T)) = clean(T).
C18_Idempotent ==
  (cleaned.again /\ ~cleaned.raised) =>
    cleaned.second = cleaned.value

----------------------------------------------------------------------------
(* The body of the PDF *)

\* the export handed back a PDF
PdfReturned ==
  ret.op = "pdf" /\ ret.artifact # 0 /\ Artifact.kind = "pdf"

\* t.split('\n') of a text, line by line
InputLines(t) ==
  LET breaks == <<0>> \o SelectSeq([i \in 1..Len(t) |-> IF t[i] = 10 THEN i ELSE 0],
                                   LAMBDA i : i # 0) \o <<Len(t) + 1>>
  IN  [k \in 1..(Len(breaks) - 1) |-> SubSeq(t, breaks[k] + 1, breaks[k + 1] - 1)]

\* C19: with a usable font embedded the lines rendered are the lines of the
\* original, unsanitized text; without one they are the lines of the
\* sanitized text and the notice is in the document.
C19_SanitizedOnlyWithoutFont ==
  PdfReturned =>
    /\ Artifact.content.font = "SimHei" => Artifact.content.lines = InputLines(text)
    /\ Artifact.content.font = "Arial" => Artifact.content.notice

\* C20: the PDF holds one rendered group per line of the input, in order: a
\* gap with no text cell for a blank line, one or more text cells for any
\* other line.
C20_LineStructureKept ==
  PdfReturned =>
    LET groups == Artifact.content.groups
        input == InputLines(text)
    IN  /\ Len(groups) = Len(input)
        /\ \A i \in 1..Len(input) :
             IF Blank(input[i])
             THEN groups[i].kind = "gap" /\ groups[i].cells = <<>>
             ELSE groups[i].kind = "cells" /\ Len(groups[i].cells) >= 1

----------------------------------------------------------------------------
(* Pagination of the PDF body *)

\* the gaps and cells of the PDF handed back, in the order of emission
EmittedBody ==
  Artifact.content.body

\* C21: every gap and every text cell of the body is emitted with the tracked
\* cursor at or below the page threshold, the later cells of a wrapped line
\* included: once the cursor is above it, a page is started first.
C21_CursorWithinPage ==
  PdfReturned =>
    \A k \in 1..Len(EmittedBody) : EmittedBody[k].at <= page_threshold

----------------------------------------------------------------------------
(* Wrapping of long lines *)

\* the words of a string: its maximal runs of characters other than the space
WordsOf(s) ==
  SelectSeq(SplitWords(s), LAMBDA w : w # <<>>)

\* the words of the cells emitted for line i of the PDF, cell after cell
CellWords(i) ==
  Flatten([k \in 1..Len(Artifact.content.groups[i].cells) |->
             WordsOf(Artifact.content.groups[i].cells[k])])

\* C22: for every line of the PDF longer than 85 characters, each cell
\* emitted for it has at most 85 characters, and the cells hold the words of
\* the line in their order, none dropped and none repeated.
C22_WrappedCellsWithinWidth ==
  PdfReturned =>
    \A i \in 1..Len(Artifact.content.lines) :
      Len(Artifact.content.lines[i]) > max_length =>
        /\ \A k \in 1..Len(Artifact.content.groups[i].cells) :
             Len(Artifact.content.groups[i].cells[k]) <= max_length
        /\ CellWords(i) = WordsOf(Artifact.content.lines[i])

----------------------------------------------------------------------------
(* Specification SpecHist: the script tab, its draft history and the clock *)

\* the label f"{timestamp_str}（{word_count}字中文）": the timestamp has a
\* fixed width, so the string is determined by, and determines, the second
\* and the count
Label(now, word_count) ==
  [time |-> now, words |-> word_count]

\* "[item["label"] for item in history]", the choices of history_dropdown
HistoryChoices(hist) ==
  [i \in 1..Len(hist) |-> hist[i].label]

\* restore_history(choice_label, history, current_text): the value of output
restore_history(choice_label, hist, current_text) ==
  IF \E i \in 1..Len(hist) : hist[i].label = choice_label
  THEN hist[CHOOSE i \in 1..Len(hist) :
              /\ hist[i].label = choice_label
              /\ \A j \in 1..(i - 1) : hist[j].label # choice_label].text
  ELSE current_text

\* answers of the service in this specification: two texts of two ideographs
\* and a failed request
HistReplies ==
  {[kind |-> "ok", text |-> <<20320, 22909>>], [kind |-> "ok", text |-> <<65, 20986, 38169>>],
   [kind |-> "exception", text |-> <<116, 105, 109, 101, 100, 32, 111, 117, 116>>]}

\* the temperature slider at its default, in tenths
HistTemperatures ==
  {9}

\* the word_limit field: empty (0) and 3
HistWordLimits ==
  {0, 3}

\* the record of one generate_script call
GenRecord(word_limit, r, reply2) ==
  [done |-> TRUE, api_key |-> gen.api_key, word_limit |-> word_limit,
   first |-> r.first, passes |-> r.passes,
   expansion |->
     IF Len(r.calls) > 1
     THEN [failed |-> ~gen.api_key \/ reply2.kind = "exception",
           text |-> call_deepseek_api(gen.api_key, reply2)]
     ELSE NoExpansion]

InitHist ==
  /\ script = <<>>
  /\ requests = <<>>
  /\ gen \in {[NoGen EXCEPT !.api_key = k] : k \in BOOLEAN}
  /\ IdleHist
  /\ IdleSan /\ IdleExport /\ IdleStore

\* generate_with_history(..., history_state) bound to the generate button;
\* datetime.now() is read after generate_script has returned
GenerateWithHistory ==
  \E word_limit \in HistWordLimits, temperature \in HistTemperatures, reply1 \in HistReplies,
     reply2 \in HistReplies, now \in clock..MaxClock :
    LET r == generate_script(word_limit, temperature, gen.api_key, reply1, reply2)
        word_count == count_words(r.text)
        label == Label(now, word_count)
    IN  /\ Len(history) < MaxDrafts
        /\ script' = r.text
        /\ requests' = r.calls
        /\ gen' = GenRecord(word_limit, r, reply2)
        /\ history' = Append(history, [label |-> label, text |-> r.text,
                                       word_count |-> word_count])
        /\ output' = r.text
        /\ timestamp' = now
        /\ clock' = now
        /\ event' = [op |-> "generate", label |-> label, continues |-> event.continues]
        /\ UNCHANGED <<sanVars, exportVars, storeVars>>

\* continue_script(output, temperature, word_limit) bound to the continue button
ContinueScript ==
  \E word_limit \in HistWordLimits, temperature \in HistTemperatures, reply1 \in HistReplies,
     reply2 \in HistReplies, now \in clock..MaxClock :
    LET r == generate_script(word_limit, temperature, gen.api_key, reply1, reply2)
    IN  /\ event.continues < MaxContinues
        /\ script' = r.text
        /\ requests' = r.calls
        /\ gen' = GenRecord(word_limit, r, reply2)
        /\ output' = output \o <<10, 10>> \o r.text
        /\ timestamp' = now
        /\ clock' = now
        /\ event' = [op |-> "continue", label |-> NoChoice, continues |-> event.continues + 1]
        /\ UNCHANGED <<history, sanVars, exportVars, storeVars>>

\* restore_history(history_dropdown, history_state, output) bound to the
\* restore button; the dropdown holds one of its choices, or nothing
RestoreHistory ==
  \E choice_label \in Range(HistoryChoices(history)) \cup {NoChoice} :
    /\ output' = restore_history(choice_label, history, output)
    /\ event' = [op |-> "restore", label |-> choice_label, continues |-> event.continues]
    /\ UNCHANGED <<history, timestamp, clock, sanVars, exportVars, storeVars, lenVars>>

NextHist ==
  GenerateWithHistory \/ ContinueScript \/ RestoreHistory

SpecHist ==
  InitHist /\ [][NextHist]_vars

\* the entries of the history stored under a label
StoredUnder(label) ==
  {i \in 1..Len(history) : history[i].label = label}

\* C23: the history only grows at its end, by exactly one entry in each
\* generate step and not at all in any other step, and a restore step puts
\* into the output box the text of the draft stored under the chosen label,
\* whichever draft that is, and leaves the box alone for an unknown label.
C23_HistoryAddressableByLabel ==
  [][
    /\ Len(history') >= Len(history)
    /\ SubSeq(history', 1, Len(history)) = history
    /\ event'.op = "generate" => Len(history') = Len(history) + 1
    /\ event'.op # "generate" => history' = history
    /\ event'.op = "restore" =>
         IF StoredUnder(event'.label) # {}
         THEN \A i \in StoredUnder(event'.label) : output' = history[i].text
         ELSE output' = output
  ]_vars

----------------------------------------------------------------------------
(* A failed first request *)

\* the first request of the generation call came back as an error string:
\* the message about the missing key, or the message made from an exception
FirstRequestFailed ==
  gen.done /\ (~gen.api_key \/ StartsWith(gen.first, ErrorPrefix))

\* the requests that went out to the service: none without a key
IssuedRequests ==
  IF gen.api_key THEN requests ELSE <<>>

\* C24: when the first request of a generation call comes back as an error
\* string, no other request goes out in that call and the call returns that
\* error string.
C24_FailedCallNotFollowedUp ==
  FirstRequestFailed => Len(IssuedRequests) <= 1 /\ script = gen.first

----------------------------------------------------------------------------
(* Specification SpecUIEmpty: the handlers of the character tab in a        *)
(* session that starts without a characters.json                            *)

InitUIEmpty ==
  InitUI /\ charfile.state = "absent"

SpecUIEmpty ==
  InitUIEmpty /\ [][NextUI]_vars

\* C25: no two stored profiles have the same trimmed, lower-cased
\* (name, role_type), whatever adds, updates and deletes the handlers have
\* carried out on the store that started empty.
C25_IdentityKeysUnique ==
  \A i, j \in 1..Len(characters) :
    i # j => IdentityKey(characters[i].name, characters[i].role_type)
               # IdentityKey(characters[j].name, characters[j].role_type)

====
